---- MODULE Spec2Model ----
(***************************************************************************)
(* Karaoke lyric synchronisation: the LRC parsers, the lyric lookup of a   *)
(* polling tick and the audio sync clock, as found in src/app.js (the      *)
(* "app" script) and src/unnamed/part_001 (the "engine" script, with       *)
(* AudioSyncEngine).                                                       *)
(*                                                                         *)
(* Numbers.  JavaScript numbers are modelled as exact fixed-point values:  *)
(* a time is an integer count of milliseconds (Second == 1000), so that    *)
(* ms / 1000, time - 0.1, the 0.2 threshold and drift * 0.3 are all exact  *)
(* on the values the model draws.                                          *)
(* Text.  A string is a sequence of one-character strings.                 *)
(***************************************************************************)
EXTENDS Integers, Sequences, FiniteSets, TLC

VARIABLES
    \* the page
    script,            \* which script the page runs: "app.js" or "engine" (part_001)
    player,            \* the YT.Player the script holds, or "null"
    videoTime,         \* the transport position, player.getCurrentTime()
    chains,            \* polling callbacks the browser holds (intervals, frames)
    analyses,          \* URL analyses (handleSearch calls) awaiting the network
    lastTick,          \* history: what the lookup of the step just taken computed
    \* src/app.js
    syncedLyrics, hasSyncedLyrics, currentLineIndex, progressInterval,
    \* src/unnamed/part_001
    lyrics, currentLine, animationFrame, syncEngine,
    audioNow,          \* audioContext.currentTime
    \* parser harness
    lrcText,           \* the text handed to a parser
    parsed,            \* what the parser returned
    parser,            \* which parser produced `parsed`
    \* clock harness
    clockCall,         \* the AudioSyncEngine method called last, and its arguments
    \* progress harness
    duration,          \* what player.getDuration() returns
    progressFill,      \* the percentage written to progressFill.style.width
    \* polling harness
    polled,            \* history: the times the lookup was called with, in order
    notifications,     \* history: the line changes emitted, <<old, new>>, in order
    \* lyric resolution harness
    eligible,          \* the strategies of findLyrics that pass its guards
    attempt,           \* the strategy and the provider the resolution calls next
    requests,          \* history: the provider calls made, in order, and how each ended
    resolved,          \* what the resolution returned or threw, once it has
    \* click harness
    clickedLine,       \* history: the index of the lyric line clicked last, or -1
    \* overlap harness
    urlAnalyses,       \* the URL analyses issued, in order: waiting, loaded or failed
    trackOwner,        \* history: the analysis whose lyrics are in place, or 0
    videoOwner         \* history: the analysis whose video the player holds, or 0

pageVars    == <<script, player, videoTime, chains, analyses, lastTick>>
appVars     == <<syncedLyrics, hasSyncedLyrics, currentLineIndex, progressInterval>>
engineVars  == <<lyrics, currentLine, animationFrame, syncEngine, audioNow>>
resolveVars == <<eligible, attempt, requests, resolved>>
clickVars == <<clickedLine>>
overlapVars == <<urlAnalyses, trackOwner, videoOwner>>
scenarioVars == <<resolveVars, clickVars, overlapVars>>
harnessVars == <<lrcText, parsed, parser, clockCall, duration, progressFill,
                 polled, notifications, scenarioVars>>

vars == <<pageVars, appVars, engineVars, harnessVars>>

\* one second, in the model's time unit (1 ms)
Second == 1000

----------------------------------------------------------------------------
(* Strings *)

Digits == {"0", "1", "2", "3", "4", "5", "6", "7", "8", "9"}

DigitVal(c) ==
    CASE c = "0" -> 0 [] c = "1" -> 1 [] c = "2" -> 2 [] c = "3" -> 3
      [] c = "4" -> 4 [] c = "5" -> 5 [] c = "6" -> 6 [] c = "7" -> 7
      [] c = "8" -> 8 [] c = "9" -> 9

\* the characters String.prototype.trim removes (those the model can draw)
WhiteSpace == {" ", "\t", "\r", "\n"}

\* the characters the regex dot does not match
LineTerminators == {"\n", "\r"}

\* s[i], or "" outside the string
At(s, i) == IF i \in 1..Len(s) THEN s[i] ELSE ""

\* s.slice(from): the characters after the first `from` ones
Slice(s, from) == IF from >= Len(s) THEN <<>> ELSE SubSeq(s, from + 1, Len(s))

RECURSIVE TrimStart(_)
TrimStart(s) ==
    IF s # <<>> /\ Head(s) \in WhiteSpace THEN TrimStart(Tail(s)) ELSE s

RECURSIVE TrimEnd(_)
TrimEnd(s) ==
    IF s # <<>> /\ s[Len(s)] \in WhiteSpace
    THEN TrimEnd(SubSeq(s, 1, Len(s) - 1)) ELSE s

\* String.prototype.trim
Trim(s) == TrimEnd(TrimStart(s))

\* String.prototype.padEnd(n, c)
PadEnd(s, n, c) ==
    IF Len(s) >= n THEN s ELSE s \o [i \in 1..(n - Len(s)) |-> c]

\* parseInt of a string of decimal digits
RECURSIVE ParseInt(_)
ParseInt(ds) ==
    IF ds = <<>> THEN 0
    ELSE 10 * ParseInt(SubSeq(ds, 1, Len(ds) - 1)) + DigitVal(ds[Len(ds)])

\* text.split('\n'): always at least one piece
RECURSIVE SplitLines(_)
SplitLines(s) ==
    IF \A i \in 1..Len(s) : s[i] # "\n" THEN <<s>>
    ELSE LET k == CHOOSE i \in 1..Len(s) :
                      s[i] = "\n" /\ \A j \in 1..(i - 1) : s[j] # "\n"
         IN <<SubSeq(s, 1, k - 1)>> \o SplitLines(Slice(s, k))

----------------------------------------------------------------------------
(* The timestamp regular expressions *)

\* how many digits stand at positions i, i+1, ...
RECURSIVE DigitRun(_, _)
DigitRun(s, i) == IF At(s, i) \in Digits THEN 1 + DigitRun(s, i + 1) ELSE 0

NoMatch == [len |-> 0, mins |-> <<>>, secs |-> <<>>, frac |-> <<>>]

\* the pattern with \d{1,3} for the fraction, as a sloppier parser would have it
MatchTagAtLoose(s, i, minLo) ==
    LET a  == DigitRun(s, i + 1)
        p2 == i + 1 + a
        b  == DigitRun(s, p2 + 1)
        p3 == p2 + 1 + b
        c  == DigitRun(s, p3 + 1)
        p4 == p3 + 1 + c
    IN IF /\ At(s, i) = "["
          /\ a \in minLo..2 /\ At(s, p2) = ":"
          /\ b = 2 /\ At(s, p3) = "."
          /\ c \in 1..3 /\ At(s, p4) = "]"
       THEN [len  |-> p4 - i + 1,
             mins |-> SubSeq(s, i + 1, p2 - 1),
             secs |-> SubSeq(s, p2 + 1, p3 - 1),
             frac |-> SubSeq(s, p3 + 1, p4 - 1)]
       ELSE NoMatch

\* \[(\d{minLo,2}):(\d{2})\.(\d{2,3})\] tried at position i of s: the
\* match's length and its three groups, or NoMatch.  A digit group is
\* followed by a non-digit, so the group is the whole run of digits.
MatchTagAt(s, i, minLo) ==
    LET a  == DigitRun(s, i + 1)
        p2 == i + 1 + a
        b  == DigitRun(s, p2 + 1)
        p3 == p2 + 1 + b
        c  == DigitRun(s, p3 + 1)
        p4 == p3 + 1 + c
    IN IF /\ At(s, i) = "["
          /\ a \in minLo..2 /\ At(s, p2) = ":"
          /\ b = 2 /\ At(s, p3) = "."
          /\ c \in 2..3 /\ At(s, p4) = "]"
       THEN [len  |-> p4 - i + 1,
             mins |-> SubSeq(s, i + 1, p2 - 1),
             secs |-> SubSeq(s, p2 + 1, p3 - 1),
             frac |-> SubSeq(s, p3 + 1, p4 - 1)]
       ELSE NoMatch

\* regex.exec with lastIndex = from (0-based): the 1-based position of the
\* first match at or after it, 0 when there is none
RECURSIVE ExecFrom(_, _, _)
ExecFrom(s, from, minLo) ==
    IF from >= Len(s) THEN 0
    ELSE IF MatchTagAt(s, from + 1, minLo).len > 0 THEN from + 1
    ELSE ExecFrom(s, from + 1, minLo)

\* padEnd as a buggy parser would have it (padStart): '.50' read as 50 ms
TagTimePadStart(m) ==
    LET fr == m.frac
        ms == ParseInt(IF Len(fr) >= 3 THEN fr
                       ELSE [i \in 1..(3 - Len(fr)) |-> "0"] \o fr)
    IN (ParseInt(m.mins) * 60 + ParseInt(m.secs)) * Second + (ms * Second) \div 1000

\* mins * 60 + secs + ms / 1000, ms = parseInt(match[3].padEnd(3, '0'))
TagTime(m) ==
    LET mins == ParseInt(m.mins)
        secs == ParseInt(m.secs)
        ms   == ParseInt(PadEnd(m.frac, 3, "0"))
    IN (mins * 60 + secs) * Second + (ms * Second) \div 1000

----------------------------------------------------------------------------
(* Array.prototype.sort((a, b) => a.time - b.time): stable (ECMAScript 2019) *)

\* an unstable insertion: the new element goes before its equals
InsertBeforeEqual(sorted, e) ==
    LET k == Cardinality({i \in 1..Len(sorted) : sorted[i].time < e.time})
    IN SubSeq(sorted, 1, k) \o <<e>> \o SubSeq(sorted, k + 1, Len(sorted))

\* e placed after every element whose time is <= e.time
InsertByTime(sorted, e) ==
    LET k == Cardinality({i \in 1..Len(sorted) : sorted[i].time <= e.time})
    IN SubSeq(sorted, 1, k) \o <<e>> \o SubSeq(sorted, k + 1, Len(sorted))

\* the list as pushed, its sort left out
SortByTimeSkipped(evs) == evs

RECURSIVE SortByTime(_)
SortByTime(evs) ==
    IF evs = <<>> THEN <<>>
    ELSE InsertByTime(SortByTime(SubSeq(evs, 1, Len(evs) - 1)), evs[Len(evs)])

----------------------------------------------------------------------------
(* app.js: parseLrcLyrics *)

\* the while loop over timeRegex.exec(line): the timestamps found and the
\* index after the last match
RECURSIVE LineTimestamps(_, _, _)
LineTimestamps(line, from, acc) ==
    LET p == ExecFrom(line, from, 2)
    IN IF p = 0 THEN acc
       ELSE LET m == MatchTagAt(line, p, 2)
                e == p - 1 + m.len
            IN LineTimestamps(line, e,
                   [timestamps |-> Append(acc.timestamps, TagTime(m)),
                    lastIndex  |-> e])

\* one iteration of `for (const line of lines)`: the events pushed
LineEvents(line) ==
    LET r    == LineTimestamps(line, 0, [timestamps |-> <<>>, lastIndex |-> 0])
        text == Trim(Slice(line, r.lastIndex))
    IN IF text = <<>> THEN <<>>
       ELSE [i \in 1..Len(r.timestamps) |-> [time |-> r.timestamps[i], text |-> text]]

RECURSIVE ConcatLines(_)
ConcatLines(lines) ==
    IF lines = <<>> THEN <<>>
    ELSE LineEvents(Head(lines)) \o ConcatLines(Tail(lines))

\* `parsed` before parsed.sort
LrcUnsorted(lrc) == ConcatLines(SplitLines(lrc))

parseLrcLyrics(lrc) == SortByTime(LrcUnsorted(lrc))

----------------------------------------------------------------------------
(* part_001: LyricsService.parseLRC *)

\* where (.*) ends: the index (0-based, exclusive) of the next line
\* terminator at or after `from`, or the end of the text
RECURSIVE DotStarEnd(_, _)
DotStarEnd(s, from) ==
    IF from >= Len(s) \/ s[from + 1] \in LineTerminators THEN from
    ELSE DotStarEnd(s, from + 1)

\* the while loop over regex.exec(lrcText): `lines` before lines.sort
RECURSIVE LRCMatches(_, _, _)
LRCMatches(s, from, acc) ==
    LET p == ExecFrom(s, from, 1)
    IN IF p = 0 THEN acc
       ELSE LET m    == MatchTagAt(s, p, 1)
                t0   == p - 1 + m.len
                e    == DotStarEnd(s, t0)
                text == Trim(SubSeq(s, t0 + 1, e))
            IN LRCMatches(s, e,
                   IF text = <<>> THEN acc
                   ELSE Append(acc, [time |-> TagTime(m), text |-> text]))

LRCUnsorted(lrc) == LRCMatches(lrc, 0, <<>>)

parseLRC(lrc) == SortByTime(LRCUnsorted(lrc))

----------------------------------------------------------------------------
(* The page: the time grid, the lyric sources, the player *)

\* sampled times lie on a grid of 0.1 s
Step == Second \div 10

DurationSteps == 3
MaxAudioSteps == 3
MaxAnalyses == 1

\* player.getDuration()
Duration == DurationSteps * Step

\* where a click on the progress bar can seek to
SeekTimes == {k * Step : k \in 0..DurationSteps}

Max(a, b) == IF a >= b THEN a ELSE b
Min(a, b) == IF a <= b THEN a ELSE b
SetMax(S) == CHOOSE x \in S : \A y \in S : y <= x

\* "[00:00.30]b\n[00:00.10]a\n[00:00.30]a": tags out of order, one time twice
SampleA ==
    <<"[", "0", "0", ":", "0", "0", ".", "3", "0", "]", "b", "\n",
      "[", "0", "0", ":", "0", "0", ".", "1", "0", "]", "a", "\n",
      "[", "0", "0", ":", "0", "0", ".", "3", "0", "]", "a">>

\* "a": synced lyrics without a single tag
SampleC == <<"a">>

LrcSamples == {SampleA, SampleC}

\* plain lyrics "a\n ": one line of text and a blank one
PlainSamples == {<<"a", "\n", " ">>}

NoPlayer  == [exists |-> FALSE, ready |-> FALSE, state |-> "none"]
\* new YT.Player(...): its methods and events come with onReady
NewPlayer == [exists |-> TRUE, ready |-> FALSE, state |-> "unstarted"]

\* no percentage written to the progress bar yet
NoProgress == [kind |-> "unset", num |-> 0, den |-> 1]

\* no lookup in the step just taken
NoTick == [looked |-> FALSE, time |-> 0, index |-> -1, prev |-> -1, changed |-> FALSE,
           threw |-> FALSE, urlError |-> FALSE]

\* the callback of the step just taken called a method the player does not
\* have yet (a YT.Player gets its methods with onReady): TypeError
Threw == [NoTick EXCEPT !.threw = TRUE]

\* the step just taken turned its URL down:
\* showError('Please enter a valid YouTube URL')
UrlError == [NoTick EXCEPT !.urlError = TRUE]

\* no lyric resolution under way
NoAttempt == [strategy |-> 0, source |-> "none"]
NoResolution ==
    /\ eligible = {}
    /\ attempt = NoAttempt
    /\ requests = <<>>
    /\ resolved = [status |-> "idle", synced |-> FALSE, source |-> "none"]

\* no lyric line clicked
NoClick == clickedLine = -1

\* no URL analysis issued
NoOverlap == urlAnalyses = <<>> /\ trackOwner = 0 /\ videoOwner = 0

\* the scenario harnesses at rest
ScenariosIdle == NoResolution /\ NoClick /\ NoOverlap

InitPage ==
    /\ player = NoPlayer
    /\ videoTime = 0
    /\ chains = 0
    /\ analyses = 0
    /\ lastTick = NoTick
    /\ duration = Duration
    /\ progressFill = NoProgress
    /\ polled = <<>>
    /\ notifications = <<>>
    /\ ScenariosIdle

\* time passes: the video advances while it plays
VideoAfterStep ==
    IF player.exists /\ player.state = "playing"
    THEN Min(videoTime + Step, Duration) ELSE videoTime

----------------------------------------------------------------------------
(* src/app.js *)

InitApp ==
    /\ syncedLyrics = <<>>
    /\ hasSyncedLyrics = FALSE
    /\ currentLineIndex = -1
    /\ progressInterval = "null"

\* what fetchLyrics can resolve to: LRCLIB's synced lyrics, parsed, or plain lyrics
AppResults ==
    {[synced |-> TRUE, parsed |-> parseLrcLyrics(s)] : s \in LrcSamples}
      \cup {[synced |-> FALSE, parsed |-> <<>>]}

\* stopProgressTracking without its clearInterval: the interval in place is
\* left running, also when startProgressTracking sets the next one
ChainsAfterStopSkipped == chains

\* the browser's intervals after stopProgressTracking()
ChainsAfterStop == IF progressInterval # "null" THEN chains - 1 ELSE chains

\* the lookup loop started from the front: the first line at or before the time
FindFirstLine(lines, currentTime, lead) ==
    LET hit == {i \in 1..Len(lines) : currentTime >= lines[i].time - lead}
    IN IF hit = {} THEN -1 ELSE (CHOOSE i \in hit : \A j \in hit : i <= j) - 1

\* the lookup loop started at length - 2: the last line is never found
FindLineSkipsLast(lines, currentTime, lead) ==
    LET hit == {i \in 1..(Len(lines) - 1) : currentTime >= lines[i].time - lead}
    IN IF hit = {} THEN -1 ELSE SetMax(hit) - 1

\* a line is current only for the 0.1 s that follow its time
FindLineWithin(lines, currentTime, lead) ==
    LET hit == {i \in 1..Len(lines) : /\ currentTime >= lines[i].time - lead
                                      /\ currentTime < lines[i].time - lead + Step}
    IN IF hit = {} THEN -1 ELSE SetMax(hit) - 1

\* for (i = length - 1; i >= 0; i--) if (currentTime >= lines[i].time - lead)
\* { newLine = i; break; }  (0-based, -1 when no line qualifies)
FindLine(lines, currentTime, lead) ==
    LET hit == {i \in 1..Len(lines) : currentTime >= lines[i].time - lead}
    IN IF hit = {} THEN -1 ELSE SetMax(hit) - 1

\* the index moved one line per tick towards the looked-up line, each
\* line on the way highlighted in its turn
SyncFromStepwise(lines, current, currentTime, lead) ==
    LET target == FindLine(lines, currentTime, lead)
        new == IF target > current THEN current + 1
               ELSE IF target < current THEN current - 1 ELSE current
    IN [index |-> new, changed |-> new # current]

\* the highlight called on every tick, whether the index moved or not
SyncFromAlwaysEmits(lines, current, currentTime, lead) ==
    [index |-> FindLine(lines, currentTime, lead), changed |-> TRUE]

\* a lookup anchored at the stored index, which it never moves back
SyncFromAnchored(lines, current, currentTime, lead) ==
    LET new == Max(current, FindLine(lines, currentTime, lead))
    IN [index |-> new, changed |-> new # current]

\* the body both scripts share: the lookup, then
\* if (newLineIndex !== currentLineIndex) { currentLineIndex = newLineIndex;
\* highlightCurrentLine(newLineIndex) }, as the new current index and whether
\* the highlight is called
SyncFrom(lines, current, currentTime, lead) ==
    LET newLineIndex == FindLine(lines, currentTime, lead)
    IN [index |-> newLineIndex, changed |-> newLineIndex # current]

\* syncLyricsToTime past its guard
syncLyricsToTime(currentTime) ==
    SyncFrom(syncedLyrics, currentLineIndex, currentTime, 0)

\* analyzeYouTubeUrl up to its first await, for a URL with a video id
analyzeYouTubeUrl ==
    /\ script = "app.js"
    /\ analyses < MaxAnalyses
    /\ analyses' = analyses + 1
    /\ chains' = ChainsAfterStop
    /\ progressInterval' = "null"
    /\ currentLineIndex' = -1
    /\ lastTick' = NoTick
    /\ UNCHANGED <<script, player, videoTime, syncedLyrics, hasSyncedLyrics>>
    /\ UNCHANGED <<engineVars, harnessVars>>

\* displayLyrics(lyricsResult, ...)
displayLyrics(r) ==
    /\ syncedLyrics' = r.parsed
    /\ hasSyncedLyrics' = (r.synced /\ Len(r.parsed) > 0)
    /\ lastTick' = NoTick

\* analyzeYouTubeUrl after its awaits: displayLyrics, initYouTubePlayer
analyzeResolved ==
    /\ script = "app.js"
    /\ analyses > 0
    /\ analyses' = analyses - 1
    /\ \E r \in AppResults : displayLyrics(r)
    /\ player' = NewPlayer
    /\ videoTime' = 0
    /\ UNCHANGED <<script, chains, currentLineIndex, progressInterval>>
    /\ UNCHANGED <<engineVars, harnessVars>>

\* analyzeYouTubeUrl's catch clearing the lyrics it could not replace
analyzeRejectedClearsTrack ==
    /\ script = "app.js"
    /\ analyses > 0
    /\ analyses' = analyses - 1
    /\ syncedLyrics' = <<>>
    /\ hasSyncedLyrics' = FALSE
    /\ lastTick' = NoTick
    /\ UNCHANGED <<script, player, videoTime, chains>>
    /\ UNCHANGED <<currentLineIndex, progressInterval>>
    /\ UNCHANGED <<engineVars, harnessVars>>

\* analyzeYouTubeUrl's catch: showError
analyzeRejected ==
    /\ script = "app.js"
    /\ analyses > 0
    /\ analyses' = analyses - 1
    /\ lastTick' = NoTick
    /\ UNCHANGED <<script, player, videoTime, chains>>
    /\ UNCHANGED <<appVars, engineVars, harnessVars>>

\* manualSearch, its lyrics found
manualSearch ==
    /\ script = "app.js"
    /\ \E r \in AppResults : displayLyrics(r)
    /\ UNCHANGED <<script, player, videoTime, chains, analyses>>
    /\ UNCHANGED <<currentLineIndex, progressInterval>>
    /\ UNCHANGED <<engineVars, harnessVars>>

\* event.target.playVideo(); startProgressTracking()
onPlayerReady ==
    /\ script = "app.js"
    /\ player.exists /\ ~player.ready
    /\ player' = [player EXCEPT !.ready = TRUE]
    /\ chains' = ChainsAfterStop + 1
    /\ progressInterval' = "set"
    /\ lastTick' = NoTick
    /\ UNCHANGED <<script, videoTime, analyses>>
    /\ UNCHANGED <<syncedLyrics, hasSyncedLyrics, currentLineIndex>>
    /\ UNCHANGED <<engineVars, harnessVars>>

\* onPlayerStateChange, state PLAYING (a replay starts at 0)
onPlayerStateChangePlaying ==
    /\ script = "app.js"
    /\ player.ready /\ player.state \in {"unstarted", "paused", "ended"}
    /\ player' = [player EXCEPT !.state = "playing"]
    /\ videoTime' = IF player.state = "ended" THEN 0 ELSE videoTime
    /\ chains' = ChainsAfterStop + 1
    /\ progressInterval' = "set"
    /\ lastTick' = NoTick
    /\ UNCHANGED <<script, analyses>>
    /\ UNCHANGED <<syncedLyrics, hasSyncedLyrics, currentLineIndex>>
    /\ UNCHANGED <<engineVars, harnessVars>>

\* onPlayerStateChange, state PAUSED
onPlayerStateChangePaused ==
    /\ script = "app.js"
    /\ player.ready /\ player.state = "playing"
    /\ player' = [player EXCEPT !.state = "paused"]
    /\ chains' = ChainsAfterStop
    /\ progressInterval' = "null"
    /\ lastTick' = NoTick
    /\ UNCHANGED <<script, videoTime, analyses>>
    /\ UNCHANGED <<syncedLyrics, hasSyncedLyrics, currentLineIndex>>
    /\ UNCHANGED <<engineVars, harnessVars>>

\* onPlayerStateChange, state ENDED
onPlayerStateChangeEnded ==
    /\ script = "app.js"
    /\ player.ready /\ player.state = "playing" /\ videoTime = Duration
    /\ player' = [player EXCEPT !.state = "ended"]
    /\ chains' = ChainsAfterStop
    /\ progressInterval' = "null"
    /\ currentLineIndex' = -1
    /\ lastTick' = NoTick
    /\ UNCHANGED <<script, videoTime, analyses>>
    /\ UNCHANGED <<syncedLyrics, hasSyncedLyrics>>
    /\ UNCHANGED <<engineVars, harnessVars>>

\* updateProgress, the interval's callback
updateProgress ==
    /\ script = "app.js"
    /\ chains > 0
    /\ IF player.exists /\ player.ready /\ hasSyncedLyrics /\ Len(syncedLyrics) # 0
       THEN LET r == syncLyricsToTime(videoTime)
            IN /\ currentLineIndex' = r.index
               /\ lastTick' = [looked |-> TRUE, time |-> videoTime, index |-> r.index,
                               prev |-> currentLineIndex, changed |-> r.changed,
                               threw |-> FALSE, urlError |-> FALSE]
       ELSE /\ lastTick' = NoTick
            /\ UNCHANGED currentLineIndex
    /\ UNCHANGED <<script, player, videoTime, chains, analyses>>
    /\ UNCHANGED <<syncedLyrics, hasSyncedLyrics, progressInterval>>
    /\ UNCHANGED <<engineVars, harnessVars>>

\* handleProgressSeek: player.seekTo(percent * duration, true)
handleProgressSeek ==
    /\ script = "app.js"
    /\ player.exists /\ player.ready
    /\ \E t \in SeekTimes : videoTime' = t
    /\ lastTick' = NoTick
    /\ UNCHANGED <<script, player, chains, analyses>>
    /\ UNCHANGED <<appVars, engineVars, harnessVars>>

\* the click handler of a synced line: player.seekTo(time, true)
lyricsLineClick ==
    /\ script = "app.js"
    /\ hasSyncedLyrics
    /\ player.exists /\ player.ready
    /\ \E i \in 1..Len(syncedLyrics) :
          videoTime' = Min(syncedLyrics[i].time, Duration)
    /\ lastTick' = NoTick
    /\ UNCHANGED <<script, player, chains, analyses>>
    /\ UNCHANGED <<appVars, engineVars, harnessVars>>

\* togglePlayPause: player.getPlayerState(), then pauseVideo() or playVideo(),
\* whose effect arrives as a state change
togglePlayPause ==
    /\ script = "app.js"
    /\ player.exists
    /\ lastTick' = IF player.ready THEN NoTick ELSE Threw
    /\ UNCHANGED <<script, player, videoTime, chains, analyses>>
    /\ UNCHANGED <<appVars, engineVars, harnessVars>>

\* handleProgressSeek on a player that is not ready: player.getDuration is
\* not a function
handleProgressSeekUnready ==
    /\ script = "app.js"
    /\ player.exists /\ ~player.ready
    /\ lastTick' = Threw
    /\ UNCHANGED <<script, player, videoTime, chains, analyses>>
    /\ UNCHANGED <<appVars, engineVars, harnessVars>>

\* the click handler of a synced line on a player that is not ready:
\* player.seekTo is not a function
lyricsLineClickUnready ==
    /\ script = "app.js"
    /\ hasSyncedLyrics /\ Len(syncedLyrics) > 0
    /\ player.exists /\ ~player.ready
    /\ lastTick' = Threw
    /\ UNCHANGED <<script, player, videoTime, chains, analyses>>
    /\ UNCHANGED <<appVars, engineVars, harnessVars>>

\* 0.1 s of playback
AppTimePasses ==
    /\ script = "app.js"
    /\ player.exists /\ player.state = "playing" /\ videoTime < Duration
    /\ videoTime' = VideoAfterStep
    /\ lastTick' = NoTick
    /\ UNCHANGED <<script, player, chains, analyses>>
    /\ UNCHANGED <<appVars, engineVars, harnessVars>>

NextApp ==
    \/ analyzeYouTubeUrl \/ analyzeResolved \/ analyzeRejected \/ manualSearch
    \/ onPlayerReady \/ onPlayerStateChangePlaying \/ onPlayerStateChangePaused
    \/ onPlayerStateChangeEnded \/ updateProgress
    \/ handleProgressSeek \/ lyricsLineClick \/ AppTimePasses
    \/ togglePlayPause \/ handleProgressSeekUnready \/ lyricsLineClickUnready

----------------------------------------------------------------------------
(* src/unnamed/part_001: AudioSyncEngine *)

\* Math.abs(drift) > 0.2
DriftThreshold == (2 * Second) \div 10

\* time - 0.1 in syncLyrics
LookAhead == Second \div 10

Abs(x) == IF x < 0 THEN -x ELSE x

\* drift * 0.3 is a whole number of time units
ExactGain(drift) == (3 * drift) % 10 = 0

\* no method of the clock called yet
NoCall == [op |-> "none", videoTime |-> 0, syncedTime |-> 0]

InitEngine ==
    /\ lyrics = [loaded |-> FALSE, synced |-> FALSE, lines |-> <<>>]
    /\ currentLine = -1
    /\ animationFrame = "null"
    /\ syncEngine = [audioContext |-> FALSE, startTime |-> 0,
                     pausedTime |-> 0, driftCorrection |-> 0]
    /\ audioNow = 0

\* getAccurateTime without its Math.max(0, ...)
getAccurateTimeUnfloored(e) ==
    IF ~e.audioContext THEN 0
    ELSE audioNow - e.startTime + e.pausedTime + e.driftCorrection

\* AudioSyncEngine.getAccurateTime()
getAccurateTime(e) ==
    IF ~e.audioContext THEN 0
    ELSE LET rawTime == audioNow - e.startTime + e.pausedTime
         IN Max(0, rawTime + e.driftCorrection)

\* AudioSyncEngine.init()
init(e) == [e EXCEPT !.audioContext = TRUE]

\* AudioSyncEngine.start(currentVideoTime)
start(e, currentVideoTime) ==
    [e EXCEPT !.startTime = audioNow - currentVideoTime]

\* AudioSyncEngine.pause(currentVideoTime)
pause(e, currentVideoTime) == [e EXCEPT !.pausedTime = currentVideoTime]

\* correctDrift with a gain of 3 for 0.3
correctDriftOvershoot(e, videoTime_, syncedTime) ==
    LET drift == videoTime_ - syncedTime
    IN IF Abs(drift) > DriftThreshold
       THEN [e EXCEPT !.driftCorrection = @ + drift * 3]
       ELSE e

\* correctDrift with >= for >: a drift of exactly 0.2 corrected too
correctDriftInclusive(e, videoTime_, syncedTime) ==
    LET drift == videoTime_ - syncedTime
    IN IF Abs(drift) >= DriftThreshold
       THEN [e EXCEPT !.driftCorrection = @ + (drift * 3) \div 10]
       ELSE e

\* AudioSyncEngine.correctDrift(videoTime, syncedTime)
correctDrift(e, videoTime_, syncedTime) ==
    LET drift == videoTime_ - syncedTime
    IN IF Abs(drift) > DriftThreshold
       THEN [e EXCEPT !.driftCorrection = @ + (drift * 3) \div 10]
       ELSE e

----------------------------------------------------------------------------
(* src/unnamed/part_001: LyricsService.fetchLyricsOvh, App *)

\* data.lyrics.split('\n').filter(text => text.trim())
\*     .map((text, i) => ({ time: i * 3, text: text.trim() }))
PlainLines(text) ==
    LET kept == SelectSeq(SplitLines(text), LAMBDA l : Trim(l) # <<>>)
    IN [i \in 1..Len(kept) |-> [time |-> (i - 1) * 3 * Second, text |-> Trim(kept[i])]]

\* what fetchWithFallback can resolve to
EngineResults ==
    {[loaded |-> TRUE, synced |-> TRUE, lines |-> parseLRC(s)] : s \in LrcSamples}
      \cup {[loaded |-> TRUE, synced |-> FALSE, lines |-> PlainLines(p)] : p \in PlainSamples}

\* the browser's frame callbacks after stopSyncLoop(): cancelAnimationFrame
\* of the stored id, which stays stored
ChainsAfterCancel == IF animationFrame = "pending" THEN chains - 1 ELSE chains
FrameAfterCancel == IF animationFrame = "pending" THEN "stale" ELSE animationFrame

\* syncLyrics past its guard: lines[i].time - 0.1 in the lookup
syncLyrics(currentTime) ==
    SyncFrom(lyrics.lines, currentLine, currentTime, LookAhead)

\* handleSearch up to its first await, for a URL with a video id
handleSearch ==
    /\ script = "engine"
    /\ analyses < MaxAnalyses
    /\ analyses' = analyses + 1
    /\ lastTick' = NoTick
    /\ UNCHANGED <<script, player, videoTime, chains>>
    /\ UNCHANGED <<appVars, engineVars, harnessVars>>

\* handleSearch resumed inside a frame, between the frame's lookup on the
\* old track and its highlight
handleSearchResolvedMidTick ==
    /\ script = "engine"
    /\ analyses > 0
    /\ analyses' = analyses - 1
    /\ \E r \in EngineResults : lyrics' = r
    /\ player' = NewPlayer
    /\ videoTime' = 0
    /\ LET accurateTime == getAccurateTime(syncEngine)
           r == syncLyrics(accurateTime)
       IN /\ currentLine' = r.index
          /\ lastTick' = [looked |-> TRUE, time |-> accurateTime, index |-> r.index,
                          prev |-> currentLine, changed |-> r.changed,
                          threw |-> FALSE, urlError |-> FALSE]
    /\ UNCHANGED <<script, chains, animationFrame, syncEngine, audioNow>>
    /\ UNCHANGED <<appVars, harnessVars>>

\* handleSearch after its awaits, with initPlayer starting the sync loop as
\* soon as the player is created
handleSearchResolvedStartsLoop ==
    /\ script = "engine"
    /\ analyses > 0
    /\ analyses' = analyses - 1
    /\ \E r \in EngineResults : lyrics' = r
    /\ player' = NewPlayer
    /\ videoTime' = 0
    /\ chains' = ChainsAfterCancel + 1
    /\ animationFrame' = "pending"
    /\ lastTick' = NoTick
    /\ UNCHANGED <<script, currentLine, syncEngine, audioNow>>
    /\ UNCHANGED <<appVars, harnessVars>>

\* handleSearch after its awaits: this.lyrics = lyricsData, displayLyrics,
\* initPlayer
handleSearchResolved ==
    /\ script = "engine"
    /\ analyses > 0
    /\ analyses' = analyses - 1
    /\ \E r \in EngineResults : lyrics' = r
    /\ player' = NewPlayer
    /\ videoTime' = 0
    /\ lastTick' = NoTick
    /\ UNCHANGED <<script, chains, currentLine, animationFrame, syncEngine, audioNow>>
    /\ UNCHANGED <<appVars, harnessVars>>

\* handleSearch's catch: showError
handleSearchRejected ==
    /\ script = "engine"
    /\ analyses > 0
    /\ analyses' = analyses - 1
    /\ lastTick' = NoTick
    /\ UNCHANGED <<script, player, videoTime, chains>>
    /\ UNCHANGED <<appVars, engineVars, harnessVars>>

\* initPlayer's onReady: init, start(0), startSyncLoop
onReady ==
    /\ script = "engine"
    /\ player.exists /\ ~player.ready
    /\ player' = [player EXCEPT !.ready = TRUE]
    /\ syncEngine' = start(init(syncEngine), 0)
    /\ chains' = ChainsAfterCancel + 1
    /\ animationFrame' = "pending"
    /\ lastTick' = NoTick
    /\ UNCHANGED <<script, videoTime, analyses>>
    /\ UNCHANGED <<lyrics, currentLine, audioNow>>
    /\ UNCHANGED <<appVars, harnessVars>>

\* initPlayer's onStateChange, state PLAYING (a replay starts at 0)
onStateChangePlaying ==
    /\ script = "engine"
    /\ player.ready /\ player.state \in {"unstarted", "paused", "ended"}
    /\ player' = [player EXCEPT !.state = "playing"]
    /\ videoTime' = IF player.state = "ended" THEN 0 ELSE videoTime
    /\ syncEngine' = start(syncEngine, videoTime')
    /\ chains' = ChainsAfterCancel + 1
    /\ animationFrame' = "pending"
    /\ lastTick' = NoTick
    /\ UNCHANGED <<script, analyses>>
    /\ UNCHANGED <<lyrics, currentLine, audioNow>>
    /\ UNCHANGED <<appVars, harnessVars>>

\* onStateChange, state PAUSED, without its stopSyncLoop()
onStateChangePausedLoopKept ==
    /\ script = "engine"
    /\ player.ready /\ player.state = "playing"
    /\ player' = [player EXCEPT !.state = "paused"]
    /\ syncEngine' = pause(syncEngine, videoTime)
    /\ lastTick' = NoTick
    /\ UNCHANGED <<script, videoTime, analyses, chains, animationFrame>>
    /\ UNCHANGED <<lyrics, currentLine, audioNow>>
    /\ UNCHANGED <<appVars, harnessVars>>

\* initPlayer's onStateChange, state PAUSED
onStateChangePaused ==
    /\ script = "engine"
    /\ player.ready /\ player.state = "playing"
    /\ player' = [player EXCEPT !.state = "paused"]
    /\ syncEngine' = pause(syncEngine, videoTime)
    /\ chains' = ChainsAfterCancel
    /\ animationFrame' = FrameAfterCancel
    /\ lastTick' = NoTick
    /\ UNCHANGED <<script, videoTime, analyses>>
    /\ UNCHANGED <<lyrics, currentLine, audioNow>>
    /\ UNCHANGED <<appVars, harnessVars>>

\* initPlayer's onStateChange, state ENDED: neither branch is taken
onStateChangeEnded ==
    /\ script = "engine"
    /\ player.ready /\ player.state = "playing" /\ videoTime = Duration
    /\ player' = [player EXCEPT !.state = "ended"]
    /\ lastTick' = NoTick
    /\ UNCHANGED <<script, videoTime, chains, analyses>>
    /\ UNCHANGED <<appVars, engineVars, harnessVars>>

\* syncFrame, the frame callback of startSyncLoop.  On a player that is not
\* ready yet player.getCurrentTime is not a function: the callback throws
\* and requests no further frame.  Frames are sampled where drift * 0.3 is a
\* whole number of milliseconds (ExactGain), so that the correction is exact.
syncFrame ==
    /\ script = "engine"
    /\ chains > 0 /\ animationFrame = "pending"
    /\ IF ~(player.exists /\ player.ready)
       THEN /\ chains' = chains - 1
            /\ animationFrame' = "stale"
            /\ lastTick' = Threw
            /\ UNCHANGED <<syncEngine, currentLine>>
       ELSE LET accurateTime == getAccurateTime(syncEngine)
                r == syncLyrics(accurateTime)
            IN /\ Abs(videoTime - accurateTime) > DriftThreshold
                    => ExactGain(videoTime - accurateTime)
               /\ syncEngine' = correctDrift(syncEngine, videoTime, accurateTime)
               /\ currentLine' = r.index
               /\ lastTick' = [looked |-> TRUE, time |-> accurateTime, index |-> r.index,
                               prev |-> currentLine, changed |-> r.changed,
                               threw |-> FALSE, urlError |-> FALSE]
               /\ UNCHANGED <<chains, animationFrame>>
    /\ UNCHANGED <<script, player, videoTime, analyses, lyrics, audioNow>>
    /\ UNCHANGED <<appVars, harnessVars>>

\* handleSeek with the clock re-anchored at the position before the seek
handleSeekStale ==
    /\ script = "engine"
    /\ player.exists /\ player.ready
    /\ \E t \in SeekTimes : videoTime' = t
    /\ syncEngine' = start(syncEngine, videoTime)
    /\ lastTick' = NoTick
    /\ UNCHANGED <<script, player, chains, analyses>>
    /\ UNCHANGED <<lyrics, currentLine, animationFrame, audioNow>>
    /\ UNCHANGED <<appVars, harnessVars>>

\* handleSeek: player.seekTo(seekTime, true); syncEngine.start(seekTime)
handleSeek ==
    /\ script = "engine"
    /\ player.exists /\ player.ready
    /\ \E t \in SeekTimes :
          /\ videoTime' = t
          /\ syncEngine' = start(syncEngine, t)
    /\ lastTick' = NoTick
    /\ UNCHANGED <<script, player, chains, analyses>>
    /\ UNCHANGED <<lyrics, currentLine, animationFrame, audioNow>>
    /\ UNCHANGED <<appVars, harnessVars>>

\* the click handler of a line: player.seekTo(time, true); syncEngine.start(time)
lineClick ==
    /\ script = "engine"
    /\ player.exists /\ player.ready
    /\ \E i \in 1..Len(lyrics.lines) :
          /\ videoTime' = Min(lyrics.lines[i].time, Duration)
          /\ syncEngine' = start(syncEngine, lyrics.lines[i].time)
    /\ lastTick' = NoTick
    /\ UNCHANGED <<script, player, chains, analyses>>
    /\ UNCHANGED <<lyrics, currentLine, animationFrame, audioNow>>
    /\ UNCHANGED <<appVars, harnessVars>>

\* App.togglePlayPause: player.getPlayerState(), then pauseVideo() or
\* playVideo(), whose effect arrives as a state change
AppTogglePlayPause ==
    /\ script = "engine"
    /\ player.exists
    /\ lastTick' = IF player.ready THEN NoTick ELSE Threw
    /\ UNCHANGED <<script, player, videoTime, chains, analyses>>
    /\ UNCHANGED <<appVars, engineVars, harnessVars>>

\* handleSeek on a player that is not ready: player.getDuration is not a
\* function, and neither seekTo nor start is reached
handleSeekUnready ==
    /\ script = "engine"
    /\ player.exists /\ ~player.ready
    /\ lastTick' = Threw
    /\ UNCHANGED <<script, player, videoTime, chains, analyses>>
    /\ UNCHANGED <<appVars, engineVars, harnessVars>>

\* the click handler of a line on a player that is not ready: player.seekTo
\* is not a function, and start is not reached
lineClickUnready ==
    /\ script = "engine"
    /\ Len(lyrics.lines) > 0
    /\ player.exists /\ ~player.ready
    /\ lastTick' = Threw
    /\ UNCHANGED <<script, player, videoTime, chains, analyses>>
    /\ UNCHANGED <<appVars, engineVars, harnessVars>>

\* 0.1 s passes: the audio clock runs, the video advances while it plays
EngineTimePasses ==
    /\ script = "engine"
    /\ syncEngine.audioContext /\ audioNow < MaxAudioSteps * Step
    /\ audioNow' = audioNow + Step
    /\ videoTime' = VideoAfterStep
    /\ lastTick' = NoTick
    /\ UNCHANGED <<script, player, chains, analyses>>
    /\ UNCHANGED <<lyrics, currentLine, animationFrame, syncEngine>>
    /\ UNCHANGED <<appVars, harnessVars>>

NextEngine ==
    \/ handleSearch \/ handleSearchResolved \/ handleSearchRejected
    \/ onReady \/ onStateChangePlaying \/ onStateChangePaused \/ onStateChangeEnded
    \/ syncFrame \/ handleSeek \/ lineClick \/ EngineTimePasses
    \/ AppTogglePlayPause \/ handleSeekUnready \/ lineClickUnready

----------------------------------------------------------------------------
(* A session of either script *)

Init ==
    /\ script \in {"app.js", "engine"}
    /\ InitPage /\ InitApp /\ InitEngine
    /\ lrcText = <<>> /\ parsed = <<>> /\ parser = "none"
    /\ clockCall = NoCall

Next == NextApp \/ NextEngine

Spec == Init /\ [][Next]_vars

----------------------------------------------------------------------------
(* A session in which the user also submits URLs that hold no video id *)

\* analyzeYouTubeUrl with the loop stopped and the highlight reset before the
\* URL is looked at
analyzeInvalidUrlStopsFirst ==
    /\ script = "app.js"
    /\ chains' = ChainsAfterStop
    /\ progressInterval' = "null"
    /\ currentLineIndex' = -1
    /\ lastTick' = UrlError
    /\ UNCHANGED <<script, player, videoTime, analyses, syncedLyrics, hasSyncedLyrics>>
    /\ UNCHANGED <<engineVars, harnessVars>>

\* analyzeYouTubeUrl, extractYouTubeVideoId(url) null: showError, return
analyzeInvalidUrl ==
    /\ script = "app.js"
    /\ lastTick' = UrlError
    /\ UNCHANGED <<script, player, videoTime, chains, analyses>>
    /\ UNCHANGED <<appVars, engineVars, harnessVars>>

\* App.handleSearch, YouTubeService.extractVideoId(url) null: showError, return
handleSearchInvalidUrl ==
    /\ script = "engine"
    /\ lastTick' = UrlError
    /\ UNCHANGED <<script, player, videoTime, chains, analyses>>
    /\ UNCHANGED <<appVars, engineVars, harnessVars>>

NextUrl == Next \/ analyzeInvalidUrl \/ handleSearchInvalidUrl

SpecUrl == Init /\ [][NextUrl]_vars

----------------------------------------------------------------------------
(* The parser harness: a text is drawn, and either parser is applied *)

MaxPieces == 4

TagA   == <<"[", "0", "1", ":", "0", "2", ".", "5", "0", "]">>
TagB   == <<"[", "0", "0", ":", "0", "0", ".", "0", "5", "]">>
TagB3  == <<"[", "0", "0", ":", "0", "0", ".", "0", "5", "0", "]">>
\* a one-digit minute field: a tag for parseLRC only
TagM1  == <<"[", "1", ":", "0", "2", ".", "0", "0", "]">>
\* one fractional digit: a tag for neither parser
TagBad == <<"[", "0", "0", ":", "0", "1", ".", "5", "]">>
\* a whole line, "[01:02.50]b" and its newline
LineAb == TagA \o <<"b", "\n">>

Pieces == {TagA, TagB, TagB3, TagM1, TagBad, LineAb, <<"a">>, <<" ">>, <<"\n">>}

RECURSIVE Texts(_)
Texts(n) ==
    IF n = 0 THEN {<<>>}
    ELSE Texts(n - 1) \cup {t \o p : t \in Texts(n - 1), p \in Pieces}

LrcInputs == Texts(MaxPieces)

InitParse ==
    /\ lrcText \in LrcInputs
    /\ parsed = <<>>
    /\ parser = "none"
    /\ clockCall = NoCall
    /\ script = "app.js"
    /\ InitPage /\ InitApp /\ InitEngine

RunParseLrcLyrics ==
    /\ parsed' = parseLrcLyrics(lrcText)
    /\ parser' = "parseLrcLyrics"
    /\ UNCHANGED <<lrcText, clockCall, duration, progressFill, polled, notifications,
                scenarioVars>>
    /\ UNCHANGED <<pageVars, appVars, engineVars>>

RunParseLRC ==
    /\ parsed' = parseLRC(lrcText)
    /\ parser' = "parseLRC"
    /\ UNCHANGED <<lrcText, clockCall, duration, progressFill, polled, notifications,
                scenarioVars>>
    /\ UNCHANGED <<pageVars, appVars, engineVars>>

NextParse == RunParseLrcLyrics \/ RunParseLRC

SpecParse == InitParse /\ [][NextParse]_vars

----------------------------------------------------------------------------
(* The clock harness: an AudioSyncEngine of its own, its methods called in *)
(* any order with arguments on the time grid                               *)

MaxClockSteps == 3
\* how far the harness lets driftCorrection go, either way
MaxCorrection == 2 * Step

ClockTimes == {k * Step : k \in 0..MaxClockSteps}

InitClock ==
    /\ script = "engine"
    /\ InitPage /\ InitApp /\ InitEngine
    /\ lrcText = <<>> /\ parsed = <<>> /\ parser = "none"
    /\ clockCall = NoCall

ClockUnchanged ==
    UNCHANGED <<pageVars, appVars, lyrics, currentLine, animationFrame,
                lrcText, parsed, parser, duration, progressFill,
                polled, notifications, scenarioVars>>

\* syncEngine.init()
ClockInit ==
    /\ syncEngine' = init(syncEngine)
    /\ clockCall' = [NoCall EXCEPT !.op = "init"]
    /\ UNCHANGED audioNow
    /\ ClockUnchanged

\* syncEngine.start(t), on an initialised clock
ClockStart ==
    /\ syncEngine.audioContext
    /\ \E t \in ClockTimes :
          /\ syncEngine' = start(syncEngine, t)
          /\ clockCall' = [NoCall EXCEPT !.op = "start", !.videoTime = t]
    /\ UNCHANGED audioNow
    /\ ClockUnchanged

\* syncEngine.pause(t)
ClockPause ==
    /\ \E t \in ClockTimes :
          /\ syncEngine' = pause(syncEngine, t)
          /\ clockCall' = [NoCall EXCEPT !.op = "pause", !.videoTime = t]
    /\ UNCHANGED audioNow
    /\ ClockUnchanged

\* syncEngine.correctDrift(v, s)
ClockCorrectDrift ==
    /\ \E v, s \in ClockTimes :
          /\ ExactGain(v - s)
          /\ syncEngine' = correctDrift(syncEngine, v, s)
          /\ Abs(syncEngine'.driftCorrection) <= MaxCorrection
          /\ clockCall' = [op |-> "correctDrift", videoTime |-> v, syncedTime |-> s]
    /\ UNCHANGED audioNow
    /\ ClockUnchanged

\* 0.1 s passes on the audio clock
ClockTimePasses ==
    /\ syncEngine.audioContext /\ audioNow < MaxClockSteps * Step
    /\ audioNow' = audioNow + Step
    /\ clockCall' = NoCall
    /\ UNCHANGED syncEngine
    /\ ClockUnchanged

NextClock ==
    ClockInit \/ ClockStart \/ ClockPause \/ ClockCorrectDrift \/ ClockTimePasses

SpecClock == InitClock /\ [][NextClock]_vars

----------------------------------------------------------------------------
(* The drift harness: a started clock and a transport that advance at the  *)
(* same rate, a constant offset apart, and the clock part of syncFrame     *)

\* the offsets the transport starts ahead of (or behind) the clock
DriftOffsets ==
    {-4 * Step, -3 * Step, -2 * Step, -Step, 0, Step, 2 * Step, 3 * Step, 4 * Step}

\* the transport's time less the clock's estimate
DriftNow == videoTime - getAccurateTime(syncEngine)

InitDrift ==
    /\ script = "engine"
    /\ player = NoPlayer /\ chains = 0 /\ analyses = 0 /\ lastTick = NoTick
    /\ InitApp
    /\ lyrics = [loaded |-> FALSE, synced |-> FALSE, lines |-> <<>>]
    /\ currentLine = -1 /\ animationFrame = "null"
    /\ audioNow = 0
    /\ \E t \in ClockTimes, d \in DriftOffsets :
          /\ t + d >= 0
          /\ videoTime = t + d
          /\ syncEngine = start(init([audioContext |-> FALSE, startTime |-> 0,
                                      pausedTime |-> 0, driftCorrection |-> 0]), t)
    /\ lrcText = <<>> /\ parsed = <<>> /\ parser = "none"
    /\ clockCall = NoCall
    /\ duration = Duration /\ progressFill = NoProgress
    /\ polled = <<>> /\ notifications = <<>>
    /\ ScenariosIdle

DriftUnchanged ==
    UNCHANGED <<script, player, chains, analyses, lastTick, appVars,
                lyrics, currentLine, animationFrame, lrcText, parsed, parser,
                duration, progressFill, polled, notifications, scenarioVars>>

\* syncFrame's reads and its correctDrift(videoTime, accurateTime)
DriftTick ==
    /\ LET accurateTime == getAccurateTime(syncEngine)
       IN /\ syncEngine' = correctDrift(syncEngine, videoTime, accurateTime)
          /\ clockCall' = [op |-> "correctDrift", videoTime |-> videoTime,
                           syncedTime |-> accurateTime]
    /\ UNCHANGED <<audioNow, videoTime>>
    /\ DriftUnchanged

\* 0.1 s passes on the audio clock and on the transport alike
DriftTimePasses ==
    /\ audioNow < MaxClockSteps * Step
    /\ audioNow' = audioNow + Step
    /\ videoTime' = videoTime + Step
    /\ clockCall' = NoCall
    /\ UNCHANGED syncEngine
    /\ DriftUnchanged

NextDrift == DriftTick \/ DriftTimePasses

\* frames keep coming: requestAnimationFrame(syncFrame) at the end of each
SpecDrift == InitDrift /\ [][NextDrift]_vars /\ WF_vars(DriftTick)

----------------------------------------------------------------------------
(* The progress harness: a tick and a seek of either script on a ready     *)
(* player whose duration, position and clock estimate are drawn; a         *)
(* duration of 0 is what getDuration() returns before the metadata is in   *)

MaxProgressSteps == 4

ProgressTimes == {k * Step : k \in 0..MaxProgressSteps}

\* where a click on the progress bar lands: (clientX - rect.left) / rect.width,
\* in hundredths
ClickPercents == {0, 50, 100}

NaN == [kind |-> "NaN", num |-> 0, den |-> 1]
Infinity == [kind |-> "Infinity", num |-> 0, den |-> 1]

\* (time / duration) * 100 in JavaScript numbers, time >= 0: 0 / 0 is NaN,
\* t / 0 is Infinity, any other quotient is kept exact as num / den
Percent(time, dur) ==
    IF dur = 0
    THEN IF time = 0 THEN NaN ELSE Infinity
    ELSE [kind |-> "number", num |-> time * 100, den |-> dur]

InitProgress ==
    /\ script \in {"app.js", "engine"}
    /\ player = [exists |-> TRUE, ready |-> TRUE, state |-> "playing"]
    /\ chains = 1 /\ analyses = 0 /\ lastTick = NoTick
    /\ duration \in ProgressTimes
    /\ videoTime \in ProgressTimes /\ videoTime <= duration
    /\ syncedLyrics = parseLrcLyrics(SampleA) /\ hasSyncedLyrics = TRUE
    /\ currentLineIndex = -1 /\ progressInterval = "set"
    /\ lyrics = [loaded |-> TRUE, synced |-> TRUE, lines |-> parseLRC(SampleA)]
    /\ currentLine = -1 /\ animationFrame = "pending"
    /\ audioNow = 0
    /\ \E t \in ProgressTimes :
          /\ script = "app.js" => t = 0
          /\ syncEngine = start(init([audioContext |-> FALSE, startTime |-> 0,
                                      pausedTime |-> 0, driftCorrection |-> 0]), t)
    /\ lrcText = <<>> /\ parsed = <<>> /\ parser = "none"
    /\ clockCall = NoCall
    /\ progressFill = NoProgress
    /\ polled = <<>> /\ notifications = <<>>
    /\ ScenariosIdle

ProgressUnchanged ==
    UNCHANGED <<script, player, chains, analyses, duration, audioNow,
                syncedLyrics, hasSyncedLyrics, progressInterval,
                lyrics, animationFrame, lrcText, parsed, parser, clockCall,
                polled, notifications, scenarioVars>>

\* updateProgress: the percentage, then syncLyricsToTime(currentTime)
ProgressUpdateProgress ==
    /\ script = "app.js"
    /\ LET currentTime == videoTime
           r == syncLyricsToTime(currentTime)
       IN /\ progressFill' = Percent(currentTime, duration)
          /\ currentLineIndex' = r.index
          /\ lastTick' = [looked |-> TRUE, time |-> currentTime, index |-> r.index,
                          prev |-> currentLineIndex, changed |-> r.changed,
                               threw |-> FALSE, urlError |-> FALSE]
    /\ UNCHANGED <<videoTime, currentLine, syncEngine>>
    /\ ProgressUnchanged

\* syncFrame: correctDrift, the percentage, then syncLyrics(accurateTime)
ProgressSyncFrame ==
    /\ script = "engine"
    /\ LET accurateTime == getAccurateTime(syncEngine)
           r == syncLyrics(accurateTime)
       IN /\ syncEngine' = correctDrift(syncEngine, videoTime, accurateTime)
          /\ progressFill' = Percent(accurateTime, duration)
          /\ currentLine' = r.index
          /\ lastTick' = [looked |-> TRUE, time |-> accurateTime, index |-> r.index,
                          prev |-> currentLine, changed |-> r.changed,
                               threw |-> FALSE, urlError |-> FALSE]
    /\ UNCHANGED <<videoTime, currentLineIndex>>
    /\ ProgressUnchanged

\* handleProgressSeek: seekTime = percent * duration; player.seekTo(seekTime, true)
ProgressHandleProgressSeek ==
    /\ script = "app.js"
    /\ \E pc \in ClickPercents : videoTime' = (pc * duration) \div 100
    /\ lastTick' = NoTick
    /\ UNCHANGED <<progressFill, currentLineIndex, currentLine, syncEngine>>
    /\ ProgressUnchanged

\* handleSeek: seekTime = percent * duration; seekTo(seekTime, true);
\* syncEngine.start(seekTime)
ProgressHandleSeek ==
    /\ script = "engine"
    /\ \E pc \in ClickPercents :
          LET seekTime == (pc * duration) \div 100
          IN /\ videoTime' = seekTime
             /\ syncEngine' = start(syncEngine, seekTime)
    /\ lastTick' = NoTick
    /\ UNCHANGED <<progressFill, currentLineIndex, currentLine>>
    /\ ProgressUnchanged

NextProgress ==
    \/ ProgressUpdateProgress \/ ProgressSyncFrame
    \/ ProgressHandleProgressSeek \/ ProgressHandleSeek

SpecProgress == InitProgress /\ [][NextProgress]_vars

----------------------------------------------------------------------------
(* The polling harness: the lookup of either script called at a series of  *)
(* simulated times on a track of three lines, 3 s apart                    *)

MaxPolls == 3

\* "[00:00.00]a\n[00:03.00]b\n[00:06.00]c"
SamplePoll ==
    <<"[", "0", "0", ":", "0", "0", ".", "0", "0", "]", "a", "\n",
      "[", "0", "0", ":", "0", "3", ".", "0", "0", "]", "b", "\n",
      "[", "0", "0", ":", "0", "6", ".", "0", "0", "]", "c">>

\* the simulated times: 0, 0.5, 2.9, 3.2, 6.1 and 7 s
PollTimes ==
    {0, Second \div 2, (29 * Second) \div 10, (32 * Second) \div 10,
     (61 * Second) \div 10, 7 * Second}

InitPoll ==
    /\ script \in {"app.js", "engine"}
    /\ player = [exists |-> TRUE, ready |-> TRUE, state |-> "playing"]
    /\ videoTime = 0 /\ chains = 1 /\ analyses = 0 /\ lastTick = NoTick
    /\ syncedLyrics = parseLrcLyrics(SamplePoll) /\ hasSyncedLyrics = TRUE
    /\ currentLineIndex = -1 /\ progressInterval = "set"
    /\ lyrics = [loaded |-> TRUE, synced |-> TRUE, lines |-> parseLRC(SamplePoll)]
    /\ currentLine = -1 /\ animationFrame = "pending"
    /\ audioNow = 0
    /\ syncEngine = [audioContext |-> FALSE, startTime |-> 0,
                     pausedTime |-> 0, driftCorrection |-> 0]
    /\ lrcText = <<>> /\ parsed = <<>> /\ parser = "none"
    /\ clockCall = NoCall
    /\ duration = Duration /\ progressFill = NoProgress
    /\ polled = <<>> /\ notifications = <<>>
    /\ ScenariosIdle

PollUnchanged ==
    UNCHANGED <<script, player, videoTime, chains, analyses,
                syncedLyrics, hasSyncedLyrics, progressInterval,
                lyrics, animationFrame, syncEngine, audioNow,
                lrcText, parsed, parser, clockCall, duration, progressFill,
                scenarioVars>>

\* the next simulated time: not before the last one
NextPollTimes ==
    {t \in PollTimes : Len(polled) < MaxPolls
                          /\ (polled = <<>> \/ t >= polled[Len(polled)])}

\* syncLyricsToTime(t)
PollSyncLyricsToTime ==
    /\ script = "app.js"
    /\ \E t \in NextPollTimes :
          LET r == syncLyricsToTime(t)
          IN /\ currentLineIndex' = r.index
             /\ polled' = Append(polled, t)
             /\ notifications' = IF r.changed
                                 THEN Append(notifications, <<currentLineIndex, r.index>>)
                                 ELSE notifications
             /\ lastTick' = [looked |-> TRUE, time |-> t, index |-> r.index,
                             prev |-> currentLineIndex, changed |-> r.changed,
                             threw |-> FALSE, urlError |-> FALSE]
    /\ UNCHANGED currentLine
    /\ PollUnchanged

\* App.syncLyrics(t)
PollSyncLyrics ==
    /\ script = "engine"
    /\ \E t \in NextPollTimes :
          LET r == syncLyrics(t)
          IN /\ currentLine' = r.index
             /\ polled' = Append(polled, t)
             /\ notifications' = IF r.changed
                                 THEN Append(notifications, <<currentLine, r.index>>)
                                 ELSE notifications
             /\ lastTick' = [looked |-> TRUE, time |-> t, index |-> r.index,
                             prev |-> currentLine, changed |-> r.changed,
                             threw |-> FALSE, urlError |-> FALSE]
    /\ UNCHANGED currentLineIndex
    /\ PollUnchanged

NextPoll == PollSyncLyricsToTime \/ PollSyncLyrics

SpecPoll == InitPoll /\ [][NextPoll]_vars

----------------------------------------------------------------------------
(* The lyric resolution harness: findLyrics / fetchLyrics of src/app.js and *)
(* LyricsService.fetchWithFallback of src/unnamed/part_001, one provider    *)
(* call per step, each provider answering as it likes                       *)

\* the strategies of findLyrics, in list order; fetchWithFallback has the one
Strategies == 1..6

\* what a provider can answer: lyrics with timestamps, lyrics without, the
\* lyrics field an empty string, no lyrics field, or a failed request
\* (fetch rejects, or the response is not ok)
Responses == {"synced", "plain", "blank", "missing", "error"}

\* Lyrics.ovh has no timestamps to give
OvhResponses == Responses \ {"synced"}

\* a provider call that returned lyrics, returned null, or threw
Found(isSynced) == [kind |-> "ok", synced |-> isSynced]
ReturnedNull == [kind |-> "null", synced |-> FALSE]
Thrown == [kind |-> "throws", synced |-> FALSE]

\* fetchFromLrclib: the get endpoint, then the search endpoint, then
\* throw new Error('LRCLIB_NOT_FOUND')
fetchFromLrclib(get, search) ==
    IF get = "synced" THEN Found(TRUE)
    ELSE IF get = "plain" THEN Found(FALSE)
    ELSE IF search = "synced" THEN Found(TRUE)
    ELSE IF search = "plain" THEN Found(FALSE)
    ELSE Thrown

\* fetchFromLyricsOvh: every failure becomes LYRICS_OVH_NOT_FOUND
fetchFromLyricsOvh(response) ==
    IF response = "plain" THEN Found(FALSE) ELSE Thrown

\* LyricsService.fetchLRCLIB: null when the answer has no syncedLyrics
fetchLRCLIB(response) ==
    IF response = "error" THEN Thrown
    ELSE IF response = "synced" THEN Found(TRUE)
    ELSE ReturnedNull

\* LyricsService.fetchLyricsOvh: data.lyrics.split throws on a missing field,
\* and an empty string gives a result with no lines
fetchLyricsOvh(response) ==
    IF response \in {"error", "missing"} THEN Thrown ELSE Found(FALSE)

\* the loop of findLyrics past the strategies it skips (continue)
NextEligible(i) ==
    LET later == {j \in eligible : j > i}
    IN IF later = {} THEN SetMax(Strategies) + 1
       ELSE CHOOSE j \in later : \A k \in later : j <= k

\* a failed provider call given up on: the error leaves the resolution
AfterFailureAborts(att) == [strategy |-> SetMax(Strategies) + 1, source |-> "LRCLIB"]

\* the catch blocks: after LRCLIB the same strategy goes to Lyrics.ovh, after
\* Lyrics.ovh the loop goes on to the next strategy
AfterFailure(att) ==
    IF att.source = "LRCLIB" THEN [att EXCEPT !.source = "Lyrics.ovh"]
    ELSE [strategy |-> NextEligible(att.strategy), source |-> "LRCLIB"]

InitResolve ==
    /\ script \in {"app.js", "engine"}
    /\ player = NoPlayer
    /\ videoTime = 0 /\ chains = 0 /\ analyses = 1 /\ lastTick = NoTick
    /\ InitApp /\ InitEngine
    /\ lrcText = <<>> /\ parsed = <<>> /\ parser = "none"
    /\ clockCall = NoCall
    /\ duration = Duration /\ progressFill = NoProgress
    /\ polled = <<>> /\ notifications = <<>>
    /\ eligible \in (IF script = "app.js" THEN SUBSET Strategies ELSE {{1}})
    /\ attempt = [strategy |-> NextEligible(0), source |-> "LRCLIB"]
    /\ requests = <<>>
    /\ resolved = [status |-> "pending", synced |-> FALSE, source |-> "none"]
    /\ NoClick /\ NoOverlap

ResolveUnchanged ==
    UNCHANGED <<pageVars, appVars, engineVars, lrcText, parsed, parser, clockCall,
                duration, progressFill, polled, notifications, eligible, clickVars,
                overlapVars>>

\* the provider call `attempt` has ended with r
AfterCall(r) ==
    /\ requests' = Append(requests, [strategy |-> attempt.strategy,
                                      source |-> attempt.source,
                                      ok |-> r.kind = "ok"])
    /\ IF r.kind = "ok"
       THEN /\ resolved' = [status |-> "found", synced |-> r.synced,
                            source |-> attempt.source]
            /\ UNCHANGED attempt
       ELSE /\ attempt' = AfterFailure(attempt)
            /\ UNCHANGED resolved

\* fetchLyrics: await fetchFromLrclib(artist, song)
ResolveFetchFromLrclib ==
    /\ script = "app.js"
    /\ resolved.status = "pending"
    /\ attempt.strategy \in Strategies /\ attempt.source = "LRCLIB"
    /\ \E get \in Responses, search \in Responses :
          AfterCall(fetchFromLrclib(get, search))
    /\ ResolveUnchanged

\* fetchLyrics: await fetchFromLyricsOvh(artist, song)
ResolveFetchFromLyricsOvh ==
    /\ script = "app.js"
    /\ resolved.status = "pending"
    /\ attempt.strategy \in Strategies /\ attempt.source = "Lyrics.ovh"
    /\ \E response \in OvhResponses : AfterCall(fetchFromLyricsOvh(response))
    /\ ResolveUnchanged

\* fetchWithFallback: await source.fn(artist, title), source LRCLIB
ResolveFetchLRCLIB ==
    /\ script = "engine"
    /\ resolved.status = "pending"
    /\ attempt.strategy \in Strategies /\ attempt.source = "LRCLIB"
    /\ \E response \in Responses : AfterCall(fetchLRCLIB(response))
    /\ ResolveUnchanged

\* fetchWithFallback: await source.fn(artist, title), source Lyrics.ovh
ResolveFetchLyricsOvh ==
    /\ script = "engine"
    /\ resolved.status = "pending"
    /\ attempt.strategy \in Strategies /\ attempt.source = "Lyrics.ovh"
    /\ \E response \in OvhResponses : AfterCall(fetchLyricsOvh(response))
    /\ ResolveUnchanged

\* the loop is over: throw new Error('LYRICS_NOT_FOUND') in findLyrics,
\* 'No lyrics found from any source' in fetchWithFallback
ResolveNotFound ==
    /\ resolved.status = "pending"
    /\ attempt.strategy \notin Strategies
    /\ resolved' = [resolved EXCEPT !.status = "not found"]
    /\ UNCHANGED <<attempt, requests>>
    /\ ResolveUnchanged

NextResolve ==
    \/ ResolveFetchFromLrclib \/ ResolveFetchFromLyricsOvh
    \/ ResolveFetchLRCLIB \/ ResolveFetchLyricsOvh
    \/ ResolveNotFound

SpecResolve == InitResolve /\ [][NextResolve]_vars

----------------------------------------------------------------------------
(* The click harness: a ready player, a timed track in place, and the user  *)
(* clicking lyric lines, a tick of the polling loop after each click        *)

\* "[00:00.00]a\n[00:00.10]b": two lines 0.1 s apart
SampleNear ==
    <<"[", "0", "0", ":", "0", "0", ".", "0", "0", "]", "a", "\n",
      "[", "0", "0", ":", "0", "0", ".", "1", "0", "]", "b">>

\* the texts the provider answers with
ClickSamples == {SampleA, SamplePoll, SampleNear}

\* a video longer than every sample
ClickDuration == 7 * Second

InitClick ==
    /\ script \in {"app.js", "engine"}
    /\ player = [exists |-> TRUE, ready |-> TRUE, state |-> "playing"]
    /\ videoTime = 0 /\ chains = 1 /\ analyses = 0 /\ lastTick = NoTick
    /\ \E text \in ClickSamples :
          /\ syncedLyrics = parseLrcLyrics(text)
          /\ lyrics = [loaded |-> TRUE, synced |-> TRUE, lines |-> parseLRC(text)]
    /\ hasSyncedLyrics = TRUE
    /\ currentLineIndex = -1 /\ progressInterval = "set"
    /\ currentLine = -1 /\ animationFrame = "pending"
    /\ audioNow = 0
    /\ syncEngine = start(init([audioContext |-> FALSE, startTime |-> 0,
                                pausedTime |-> 0, driftCorrection |-> 0]), 0)
    /\ lrcText = <<>> /\ parsed = <<>> /\ parser = "none"
    /\ clockCall = NoCall
    /\ duration = ClickDuration /\ progressFill = NoProgress
    /\ polled = <<>> /\ notifications = <<>>
    /\ NoResolution
    /\ NoClick /\ NoOverlap

ClickUnchanged ==
    UNCHANGED <<script, player, chains, analyses,
                syncedLyrics, hasSyncedLyrics, progressInterval,
                lyrics, animationFrame, audioNow,
                lrcText, parsed, parser, clockCall, duration, progressFill,
                polled, notifications, resolveVars, overlapVars>>

\* the click handler of displayLyrics, on the line of index i - 1: the time
\* is read back from the line's data-time attribute, which holds the number
\* as JavaScript prints it and parseFloat reads it back
ClickLyricsLine ==
    /\ script = "app.js"
    /\ hasSyncedLyrics
    /\ player.exists
    /\ \E i \in 1..Len(syncedLyrics) :
          /\ videoTime' = Min(syncedLyrics[i].time, duration)
          /\ clickedLine' = i - 1
    /\ lastTick' = NoTick
    /\ UNCHANGED <<currentLineIndex, currentLine, syncEngine>>
    /\ ClickUnchanged

\* updateProgress, the tick after the click
ClickUpdateProgress ==
    /\ script = "app.js"
    /\ chains > 0 /\ hasSyncedLyrics /\ Len(syncedLyrics) # 0
    /\ LET r == syncLyricsToTime(videoTime)
       IN /\ currentLineIndex' = r.index
          /\ lastTick' = [looked |-> TRUE, time |-> videoTime, index |-> r.index,
                          prev |-> currentLineIndex, changed |-> r.changed,
                          threw |-> FALSE, urlError |-> FALSE]
    /\ UNCHANGED <<videoTime, currentLine, syncEngine, clickedLine>>
    /\ ClickUnchanged

\* the click handler of App.displayLyrics, on the line of index i - 1
ClickLine ==
    /\ script = "engine"
    /\ player.exists
    /\ \E i \in 1..Len(lyrics.lines) :
          /\ videoTime' = Min(lyrics.lines[i].time, duration)
          /\ syncEngine' = start(syncEngine, lyrics.lines[i].time)
          /\ clickedLine' = i - 1
    /\ lastTick' = NoTick
    /\ UNCHANGED <<currentLineIndex, currentLine>>
    /\ ClickUnchanged

\* syncFrame, the tick after the click
ClickSyncFrame ==
    /\ script = "engine"
    /\ chains > 0 /\ animationFrame = "pending"
    /\ LET accurateTime == getAccurateTime(syncEngine)
           r == syncLyrics(accurateTime)
       IN /\ Abs(videoTime - accurateTime) > DriftThreshold
               => ExactGain(videoTime - accurateTime)
          /\ syncEngine' = correctDrift(syncEngine, videoTime, accurateTime)
          /\ currentLine' = r.index
          /\ lastTick' = [looked |-> TRUE, time |-> accurateTime, index |-> r.index,
                          prev |-> currentLine, changed |-> r.changed,
                          threw |-> FALSE, urlError |-> FALSE]
    /\ UNCHANGED <<videoTime, currentLineIndex, clickedLine>>
    /\ ClickUnchanged

NextClick == ClickLyricsLine \/ ClickUpdateProgress \/ ClickLine \/ ClickSyncFrame

SpecClick == InitClick /\ [][NextClick]_vars

----------------------------------------------------------------------------
(* The overlap harness: URL analyses issued one after the other, none       *)
(* waiting for the one before, their network calls completing in any order  *)

MaxRequests == 3

\* the analyses still awaiting the network
Waiting == {k \in 1..Len(urlAnalyses) : urlAnalyses[k] = "waiting"}

InitOverlap ==
    /\ script \in {"app.js", "engine"}
    /\ InitPage /\ InitApp /\ InitEngine
    /\ lrcText = <<>> /\ parsed = <<>> /\ parser = "none"
    /\ clockCall = NoCall

OverlapUnchanged ==
    UNCHANGED <<script, lastTick, audioNow, syncEngine, animationFrame,
                lrcText, parsed, parser, clockCall, duration, progressFill,
                polled, notifications, resolveVars, clickVars>>

\* analyzeYouTubeUrl up to its first await, called by the analyze button or
\* the paste listener while earlier calls are still waiting
OverlapAnalyzeYouTubeUrl ==
    /\ script = "app.js"
    /\ Len(urlAnalyses) < MaxRequests
    /\ urlAnalyses' = Append(urlAnalyses, "waiting")
    /\ analyses' = analyses + 1
    /\ chains' = ChainsAfterStop
    /\ progressInterval' = "null"
    /\ currentLineIndex' = -1
    /\ UNCHANGED <<player, videoTime, syncedLyrics, hasSyncedLyrics>>
    /\ UNCHANGED <<lyrics, currentLine, trackOwner, videoOwner>>
    /\ OverlapUnchanged

\* analyzeYouTubeUrl number k after its awaits: displayLyrics, initYouTubePlayer
OverlapAnalyzeResolved ==
    /\ script = "app.js"
    /\ \E k \in Waiting :
          /\ urlAnalyses' = [urlAnalyses EXCEPT ![k] = "loaded"]
          /\ trackOwner' = k
          /\ videoOwner' = k
    /\ analyses' = analyses - 1
    /\ \E r \in AppResults :
          /\ syncedLyrics' = r.parsed
          /\ hasSyncedLyrics' = (r.synced /\ Len(r.parsed) > 0)
    /\ player' = NewPlayer
    /\ videoTime' = 0
    /\ UNCHANGED <<chains, currentLineIndex, progressInterval, lyrics, currentLine>>
    /\ OverlapUnchanged

\* analyzeYouTubeUrl number k, its catch: showError
OverlapAnalyzeRejected ==
    /\ script = "app.js"
    /\ \E k \in Waiting : urlAnalyses' = [urlAnalyses EXCEPT ![k] = "failed"]
    /\ analyses' = analyses - 1
    /\ UNCHANGED <<player, videoTime, chains, appVars>>
    /\ UNCHANGED <<lyrics, currentLine, trackOwner, videoOwner>>
    /\ OverlapUnchanged

\* App.handleSearch up to its first await
OverlapHandleSearch ==
    /\ script = "engine"
    /\ Len(urlAnalyses) < MaxRequests
    /\ urlAnalyses' = Append(urlAnalyses, "waiting")
    /\ analyses' = analyses + 1
    /\ UNCHANGED <<player, videoTime, chains, appVars>>
    /\ UNCHANGED <<lyrics, currentLine, trackOwner, videoOwner>>
    /\ OverlapUnchanged

\* App.handleSearch number k after its awaits: this.lyrics = lyricsData,
\* displayLyrics, initPlayer
OverlapHandleSearchResolved ==
    /\ script = "engine"
    /\ \E k \in Waiting :
          /\ urlAnalyses' = [urlAnalyses EXCEPT ![k] = "loaded"]
          /\ trackOwner' = k
          /\ videoOwner' = k
    /\ analyses' = analyses - 1
    /\ \E r \in EngineResults : lyrics' = r
    /\ player' = NewPlayer
    /\ videoTime' = 0
    /\ UNCHANGED <<chains, appVars, currentLine>>
    /\ OverlapUnchanged

\* App.handleSearch number k, its catch: showError
OverlapHandleSearchRejected ==
    /\ script = "engine"
    /\ \E k \in Waiting : urlAnalyses' = [urlAnalyses EXCEPT ![k] = "failed"]
    /\ analyses' = analyses - 1
    /\ UNCHANGED <<player, videoTime, chains, appVars>>
    /\ UNCHANGED <<lyrics, currentLine, trackOwner, videoOwner>>
    /\ OverlapUnchanged

NextOverlap ==
    \/ OverlapAnalyzeYouTubeUrl \/ OverlapAnalyzeResolved \/ OverlapAnalyzeRejected
    \/ OverlapHandleSearch \/ OverlapHandleSearchResolved \/ OverlapHandleSearchRejected

SpecOverlap == InitOverlap /\ [][NextOverlap]_vars

----------------------------------------------------------------------------
(* What the harness is checked against.  The expectations below are written  *)
(* from the input's pieces, not with the parsers' own operators.             *)

RunParser(p, text) ==
    IF p = "parseLrcLyrics" THEN parseLrcLyrics(text) ELSE parseLRC(text)

ParserUnsorted ==
    IF parser = "parseLrcLyrics" THEN LrcUnsorted(lrcText) ELSE LRCUnsorted(lrcText)

IsSortedByTime(evs) ==
    \A i \in 1..(Len(evs) - 1) : evs[i].time <= evs[i + 1].time

EventsAt(evs, t) == SelectSeq(evs, LAMBDA e : e.time = t)

TimesOf(evs) == {evs[i].time : i \in 1..Len(evs)}

\* the tags of the form [MM:SS.ff] / [MM:SS.fff] among the pieces
MMTags == {TagA, TagB, TagB3}

\* MM * 60 + SS + ms / 1000 of each, written out
ExpectedTime(tag) ==
    CASE tag = TagA  -> (1 * 60 + 2) * Second + (500 * Second) \div 1000
      [] tag = TagB  -> (50 * Second) \div 1000
      [] tag = TagB3 -> (50 * Second) \div 1000
      [] tag = TagM1 -> (1 * 60 + 2) * Second

\* the tags each parser's own pattern accepts
OwnTags(p) == IF p = "parseLRC" THEN MMTags \cup {TagM1} ELSE MMTags

IsPrefix(t, s) == Len(t) <= Len(s) /\ SubSeq(s, 1, Len(t)) = t

Contains(s, t) ==
    \E i \in 1..(Len(s) - Len(t) + 1) : SubSeq(s, i, i + Len(t) - 1) = t

CarriesTag(line, tags) == \E t \in tags : Contains(line, t)

\* the leading [MM:SS.ff] tags of a text, and what follows them
RECURSIVE LeadingTags(_)
LeadingTags(s) ==
    IF \E t \in MMTags : IsPrefix(t, s)
    THEN LET t == CHOOSE u \in MMTags : IsPrefix(u, s)
             r == LeadingTags(Slice(s, Len(t)))
         IN [tags |-> <<t>> \o r.tags, rest |-> r.rest]
    ELSE [tags |-> <<>>, rest |-> s]

IsPlainText(s) == \A i \in 1..Len(s) : s[i] \in {"a", "b", " "}

IsBlank(s) == \A i \in 1..Len(s) : s[i] = " "

\* t is s without its leading and trailing blanks
IsTrimOf(t, s) ==
    /\ t # <<>> /\ t[1] # " " /\ t[Len(t)] # " "
    /\ \E i \in 1..Len(s) :
          /\ i + Len(t) - 1 <= Len(s)
          /\ SubSeq(s, i, i + Len(t) - 1) = t
          /\ IsBlank(SubSeq(s, 1, i - 1))
          /\ IsBlank(SubSeq(s, i + Len(t), Len(s)))

RECURSIVE JoinLines(_)
JoinLines(lines) ==
    IF lines = <<>> THEN <<>>
    ELSE IF Len(lines) = 1 THEN lines[1]
    ELSE lines[1] \o <<"\n">> \o JoinLines(Tail(lines))

\* the text without the lines that carry none of `tags`
WithoutTaglessLines(text, tags) ==
    JoinLines(SelectSeq(SplitLines(text), LAMBDA l : CarriesTag(l, tags)))

IsEventSeq(evs) ==
    /\ DOMAIN evs = 1..Len(evs)
    /\ \A i \in 1..Len(evs) :
          /\ DOMAIN evs[i] = {"time", "text"}
          /\ evs[i].time \in Nat
          /\ evs[i].text # <<>>

\* C2: whatever the order of the tags in the input, a parser returns its
\* events in non-decreasing order of time, and the events of one time keep
\* the order in which the parser found them (the result is the stable sort
\* of the list built before the sort).
ParseSortedStable ==
    parser # "none" =>
        LET found == ParserUnsorted
        IN /\ IsSortedByTime(parsed)
           /\ Len(parsed) = Len(found)
           /\ \A t \in TimesOf(found) \cup TimesOf(parsed) :
                 EventsAt(parsed, t) = EventsAt(found, t)

\* C2 witness: "[01:02.50]b\n[01:02.50][00:00.05]a" parsed by parseLrcLyrics:
\* the tags come out of order and two events of different text share a time.
ParseSortedStableWitness ==
    /\ parser = "parseLrcLyrics"
    /\ lrcText = LineAb \o TagA \o TagB \o <<"a">>
    /\ ParserUnsorted # parsed
    /\ parsed = << [time |-> ExpectedTime(TagB), text |-> <<"a">>],
                   [time |-> ExpectedTime(TagA), text |-> <<"b">>],
                   [time |-> ExpectedTime(TagA), text |-> <<"a">>] >>

\* C3: a tag [MM:SS.ff] or [MM:SS.fff] gives the time MM*60 + SS + ms/1000
\* with the fraction right-padded to 3 digits: '.50' is 500 ms, '.05' is
\* 50 ms, and '.05' and '.050' give the same time.  Checked on every line
\* that is one such tag and the text "a", and on every event's time.
TagTimePadded ==
    parser # "none" =>
        /\ \A tag \in MMTags :
              lrcText = tag \o <<"a">> =>
                  parsed = << [time |-> ExpectedTime(tag), text |-> <<"a">>] >>
        /\ TimesOf(parsed) \subseteq {ExpectedTime(tag) : tag \in OwnTags(parser)}
        /\ ExpectedTime(TagB) = ExpectedTime(TagB3)

\* C3 witness: "[00:00.05]a" parsed to one event at 50 ms.
TagTimePaddedWitness ==
    /\ parser = "parseLRC"
    /\ lrcText = TagB \o <<"a">>
    /\ parsed = << [time |-> (50 * Second) \div 1000, text |-> <<"a">>] >>

\* C4: a line of k >= 1 tags [MM:SS.ff(f)] followed by non-empty text yields
\* exactly k events, one per tag, all with the trimmed text after the last
\* tag.  (The claim as stated, for both parsers; parseLRC breaks it.)
MultiTagLineYieldsOneEventPerTag ==
    LET lt == LeadingTags(lrcText)
    IN (/\ parser # "none"
        /\ Len(lt.tags) >= 1
        /\ IsPlainText(lt.rest) /\ ~IsBlank(lt.rest))
       => /\ Len(parsed) = Len(lt.tags)
          /\ \A i \in 1..Len(parsed) : IsTrimOf(parsed[i].text, lt.rest)
          /\ \A t \in TimesOf(parsed) \cup {ExpectedTime(g) : g \in MMTags} :
                Cardinality({i \in 1..Len(parsed) : parsed[i].time = t})
                  = Cardinality({i \in 1..Len(lt.tags) : ExpectedTime(lt.tags[i]) = t})

\* C5: a line whose text after the last tag is empty or blank produces no
\* event, however many tags it carries, and no event has an empty text.
\* (The claim as stated, for both parsers; parseLRC breaks it.)
BlankTextYieldsNoEvent ==
    LET lt == LeadingTags(lrcText)
    IN parser # "none" =>
          /\ (Len(lt.tags) >= 1 /\ IsBlank(lt.rest)) => parsed = <<>>
          /\ \A i \in 1..Len(parsed) : parsed[i].text # <<>>

\* C6 as stated: a parser always returns a sequence of events, and the lines
\* that carry no [MM:SS.ff] / [MM:SS.fff] tag contribute nothing to it.
TaglessLinesContributeNothingMM ==
    parser # "none" =>
        /\ IsEventSeq(parsed)
        /\ parsed = RunParser(parser, WithoutTaglessLines(lrcText, MMTags))

\* C6 amended: a parser always returns a sequence of events, and the lines
\* that carry no tag of the parser's own pattern contribute nothing to it:
\* [MM:SS.ff(f)] for parseLrcLyrics, and also [M:SS.ff(f)] for parseLRC.
TaglessLinesContributeNothing ==
    parser # "none" =>
        /\ IsEventSeq(parsed)
        /\ parsed = RunParser(parser, WithoutTaglessLines(lrcText, OwnTags(parser)))
        /\ LET ls == SplitLines(lrcText)
           IN ~(\E i \in 1..Len(ls) : CarriesTag(ls[i], OwnTags(parser)))
                 => parsed = <<>>

\* C6 witness: "[1:02.00]a\n[01:02.50]b\n" parsed by parseLrcLyrics: the first
\* line's bracket content is not a tag for it and the line gives no event.
TaglessLinesWitness ==
    /\ parser = "parseLrcLyrics"
    /\ lrcText = TagM1 \o <<"a", "\n">> \o LineAb
    /\ parsed = << [time |-> ExpectedTime(TagA), text |-> <<"b">>] >>

----------------------------------------------------------------------------
(* What a session is checked against *)

\* the loaded track, the stored current index and the lookup's lead of
\* the script the page runs
Track == IF script = "app.js" THEN syncedLyrics ELSE lyrics.lines
CurrentIndex == IF script = "app.js" THEN currentLineIndex ELSE currentLine
Lead == IF script = "app.js" THEN 0 ELSE LookAhead

\* the times a tick may sample, on the grid
QueryTimes == {k * Step : k \in 0..(DurationSteps + MaxAudioSteps)}

\* i is the index (0-based, -1 for none) of the last event of `lines` whose
\* time, less `lead`, is at or before q: that event is at or before q and
\* the event after it, if any, is strictly later
IsLastAtOrBefore(lines, q, lead, i) ==
    /\ i \in -1..(Len(lines) - 1)
    /\ i >= 0 => lines[i + 1].time - lead <= q
    /\ i + 2 <= Len(lines) => lines[i + 2].time - lead > q

\* C1, as stated: the index a tick computes is the index of the last event
\* whose time is at or before the sampled time q, -1 when q is before the
\* first event; no event later than q is selected.
TickFindsLastAtOrBefore ==
    lastTick.looked => IsLastAtOrBefore(Track, lastTick.time, 0, lastTick.index)

\* C1, amended: the index a tick computes is the index of the last event
\* whose time, less the lookup's lead, is at or before the sampled time q
\* (lead 0 in app.js, 0.1 s in the engine script), -1 when there is none.
TickFindsLastWithinLead ==
    lastTick.looked => IsLastAtOrBefore(Track, lastTick.time, Lead, lastTick.index)

\* C1: a tick of the engine script has selected an event 0.1 s ahead of the
\* sampled time, the last of two events at that time
TickFindsLastWithinLeadWitness ==
    /\ script = "engine"
    /\ lastTick.looked /\ lastTick.index = 2
    /\ lyrics.lines[3].time = lastTick.time + LookAhead
    /\ lyrics.lines[2].time = lyrics.lines[3].time

\* C7: in every reachable state every event of the loaded track has a time
\* of at least 0 and a text that is not empty, and the track is in
\* non-decreasing order of time.
TrackWellFormed ==
    /\ \A i \in 1..Len(Track) : Track[i].time >= 0 /\ Track[i].text # <<>>
    /\ \A i \in 1..(Len(Track) - 1) : Track[i].time <= Track[i + 1].time

\* C7: the track of a text whose tags were out of order is loaded
TrackWellFormedWitness ==
    /\ Len(Track) = 3
    /\ Track[1].time < Track[2].time
    /\ Track[2].text = <<"b">> /\ Track[3].text = <<"a">>

\* C8: after a tick at time t that computed index i, a tick on the same
\* track at a time not before t computes an index not below i, and a tick
\* at a time not after t an index not above i.
TickIndexMonotone ==
    lastTick.looked =>
        \A q \in QueryTimes :
            LET next == SyncFrom(Track, CurrentIndex, q, Lead).index
            IN /\ q >= lastTick.time => next >= lastTick.index
               /\ q <= lastTick.time => next <= lastTick.index

\* C8: a tick has moved the current index forward, from the first line to
\* the last
TickIndexMonotoneWitness ==
    /\ lastTick.looked /\ lastTick.changed
    /\ lastTick.prev = 0 /\ lastTick.index = 2

\* C9: the index a tick computes is the one the lookup gives for the sampled
\* time and the track from any stored current index, and a tick that
\* follows a tick at the same time on the same track emits no line change.
TickIndexIgnoresStoredIndex ==
    [][lastTick'.looked =>
         /\ \A c \in -1..Len(Track') :
               SyncFrom(Track', c, lastTick'.time, Lead').index = lastTick'.index
         /\ (lastTick.looked /\ lastTick.time = lastTick'.time /\ Track' = Track)
               => ~lastTick'.changed]_vars

\* C9: a tick has computed the first line while the stored index was the
\* last line
TickIndexIgnoresStoredIndexWitness ==
    /\ lastTick.looked /\ lastTick.changed
    /\ lastTick.prev = 2 /\ lastTick.index = 0

\* C10: correctDrift(v, s) leaves driftCorrection as it is when |v - s| is at
\* most 0.2 s and adds 0.3 * (v - s) to it otherwise, and leaves startTime,
\* pausedTime and the audio context as they are.
CorrectDriftGain ==
    [][clockCall'.op = "correctDrift" =>
         LET drift == clockCall'.videoTime - clockCall'.syncedTime
         IN /\ syncEngine'.startTime = syncEngine.startTime
            /\ syncEngine'.pausedTime = syncEngine.pausedTime
            /\ syncEngine'.audioContext = syncEngine.audioContext
            /\ IF Abs(drift) * 10 <= 2 * Second
               THEN syncEngine'.driftCorrection = syncEngine.driftCorrection
               ELSE 10 * (syncEngine'.driftCorrection - syncEngine.driftCorrection)
                       = 3 * drift]_vars

\* C10: a drift of -0.3 s has been corrected by -0.09 s on a started and
\* paused clock
CorrectDriftGainWitness ==
    /\ clockCall.op = "correctDrift"
    /\ clockCall.videoTime - clockCall.syncedTime = -3 * Step
    /\ syncEngine.driftCorrection = -((9 * Second) \div 100)
    /\ syncEngine.pausedTime > 0 /\ syncEngine.startTime < 0

----------------------------------------------------------------------------
(* What the clock is checked against *)

\* C11: the estimate read right after start(T), no audio time elapsed,
\* equals T, whatever pause(p) calls and drift corrections came before.
StartReadsReferenceTime ==
    clockCall.op = "start" => getAccurateTime(syncEngine) = clockCall.videoTime

\* C12: after pause(T) the clock's position is frozen: the audio time that
\* advances right after the call leaves what getAccurateTime returns as it
\* was.
PauseFreezesEstimate ==
    [][(clockCall.op = "pause" /\ audioNow' > audioNow)
          => getAccurateTime(syncEngine)' = getAccurateTime(syncEngine)]_vars

\* C13: getAccurateTime is never negative: it is the raw free-running time
\* plus driftCorrection where that is at least 0, and 0 where it is below 0
\* or the clock has no audio context yet.
EstimateFlooredAtZero ==
    LET raw == audioNow - syncEngine.startTime + syncEngine.pausedTime
        sum == raw + syncEngine.driftCorrection
        est == getAccurateTime(syncEngine)
    IN /\ est >= 0
       /\ ~syncEngine.audioContext => est = 0
       /\ (syncEngine.audioContext /\ sum >= 0) => est = sum
       /\ (syncEngine.audioContext /\ sum < 0) => est = 0

\* C13: an initialised clock whose raw time plus a negative driftCorrection
\* is below 0 reads 0
EstimateFlooredAtZeroWitness ==
    /\ syncEngine.audioContext
    /\ syncEngine.driftCorrection < 0
    /\ audioNow - syncEngine.startTime + syncEngine.pausedTime
          + syncEngine.driftCorrection < 0
    /\ getAccurateTime(syncEngine) = 0

\* C14: with the transport and the clock advancing at the same rate from an
\* offset d, every tick that finds |drift| > 0.2 s leaves a smaller |drift|
\* of the same sign, a |drift| of at most 0.2 s stays so, and after finitely
\* many ticks |drift| is at most 0.2 s for good.
DriftConverges ==
    /\ [][(clockCall'.op = "correctDrift" /\ Abs(DriftNow) > DriftThreshold)
            => /\ Abs(DriftNow') < Abs(DriftNow)
               /\ DriftNow' * DriftNow > 0]_vars
    /\ [][Abs(DriftNow) <= DriftThreshold => Abs(DriftNow') <= DriftThreshold]_vars
    /\ <>[](Abs(DriftNow) <= DriftThreshold)

\* C14: an offset of 0.3 s has been brought to 0.147 s by two corrections,
\* of 0.09 s and 0.063 s
DriftConvergesWitness ==
    /\ clockCall.op = "correctDrift"
    /\ syncEngine.driftCorrection = (153 * Second) \div 1000
    /\ DriftNow = (147 * Second) \div 1000

----------------------------------------------------------------------------
(* What the sync loop is checked against *)

\* the ticks the browser holds for the page: intervals or frame callbacks
TickScheduled == chains > 0

\* C15: the sync loop follows Idle/Running/Paused: a play notification of
\* the transport leaves a tick scheduled, a pause notification leaves none
\* scheduled, and the load of a new video, which tears the transport down,
\* leaves none scheduled, from whatever state it is taken.
SyncLoopFollowsTransport ==
    [][/\ (onPlayerStateChangePlaying \/ onStateChangePlaying) => TickScheduled'
       /\ (onPlayerStateChangePaused \/ onStateChangePaused) => ~TickScheduled'
       /\ (analyzeResolved \/ handleSearchResolved) => ~TickScheduled']_vars

\* C16: on every tick with a timed track loaded a line change is emitted
\* if and only if the index looked up for the sampled time differs from the
\* stored current index, and after the tick the stored current index is the
\* looked-up index.
TickEmitsIffIndexChanges ==
    [][lastTick'.looked =>
         /\ Track' = Track
         /\ lastTick'.prev = CurrentIndex
         /\ IsLastAtOrBefore(Track, lastTick'.time, Lead, lastTick'.index)
         /\ lastTick'.changed <=> (lastTick'.index # CurrentIndex)
         /\ CurrentIndex' = lastTick'.index]_vars

\* C16: a tick has found the stored index already at the looked-up line and
\* emitted nothing
TickEmitsIffIndexChangesWitness ==
    /\ lastTick.looked /\ ~lastTick.changed
    /\ lastTick.index >= 0
    /\ lastTick.prev = lastTick.index /\ CurrentIndex = lastTick.index

\* a seek of either script: a click on the progress bar or on a lyric line
SeekStep == handleProgressSeek \/ lyricsLineClick \/ handleSeek \/ lineClick

\* the index a poll tick taken in this state stores: the lookup at the time
\* the tick samples (the transport's in app.js, the clock's estimate in the
\* engine script), the stored index where the tick looks nothing up
TickIndexNow ==
    IF script = "app.js"
    THEN IF hasSyncedLyrics /\ Len(syncedLyrics) # 0
         THEN syncLyricsToTime(videoTime).index
         ELSE currentLineIndex
    ELSE syncLyrics(getAccurateTime(syncEngine)).index

\* C17: after a seek to time T, a click on the progress bar or on a lyric
\* line, with a timed track loaded, the poll tick that follows stores the
\* index the script's lookup gives for T, whatever the current index,
\* pausedTime and driftCorrection were before the seek.
TickAfterSeekFindsSeekTime ==
    [][(SeekStep /\ Len(Track) > 0)
          => IsLastAtOrBefore(Track', videoTime', Lead', TickIndexNow')]_vars

\* the step has moved the transport and re-anchored the clock at the
\* transport's new position T, start(T), with no tick and no audio time in
\* between
SeekReanchors ==
    /\ syncEngine'.startTime = audioNow - videoTime'
    /\ syncEngine'.audioContext = syncEngine.audioContext
    /\ syncEngine'.pausedTime = syncEngine.pausedTime
    /\ syncEngine'.driftCorrection = syncEngine.driftCorrection
    /\ audioNow' = audioNow
    /\ ~lastTick'.looked

\* C18, as stated: every seek path, the progress-bar seek and the
\* seek-to-lyric of either script, moves the transport with seekTo(T) and
\* re-anchors the secondary clock with start(T) for the same T, no tick
\* running in between.
EverySeekReanchorsClock == [][SeekStep => SeekReanchors]_vars

\* C18, amended: every seek path of the engine script, handleSeek and the
\* click on a lyric line, moves the transport with seekTo(T) and re-anchors
\* the clock with start(T) for the same T in the same handler, no tick
\* running in between; the seek paths of app.js, which has no secondary
\* clock, only move the transport.
EngineSeekReanchorsClock ==
    [][/\ (handleSeek \/ lineClick) => SeekReanchors
       /\ (handleProgressSeek \/ lyricsLineClick) => UNCHANGED syncEngine]_vars

\* C18: the transport of a player that never played stands past 0 and the
\* clock is anchored there: a seek of the engine script has just acted
EngineSeekReanchorsClockWitness ==
    /\ script = "engine"
    /\ player.ready /\ player.state = "unstarted"
    /\ videoTime > 0
    /\ syncEngine.startTime = audioNow - videoTime
    /\ lastTick = NoTick

\* the sync state as the scripts construct it: no current line, no drift
\* correction
SyncStateInitial == CurrentIndex = -1 /\ syncEngine.driftCorrection = 0

\* a new lyric track put in place: by the analysis of a URL, by a manual
\* search, by handleSearch
TrackLoadStep == analyzeResolved \/ manualSearch \/ handleSearchResolved

\* C19: whenever a new lyric track is loaded or a new video initialised, by
\* the analysis of a URL, a manual search or handleSearch, the sync state is
\* back at its initial values before the first tick on the new track:
\* current index -1 and driftCorrection 0.
TrackLoadResetsSyncState == [][TrackLoadStep => SyncStateInitial']_vars

\* C20: whenever the transport seeks, by a click on the progress bar or on
\* a lyric line, the sync state is back at its initial values after the seek
\* and before the next tick: current index -1 and driftCorrection 0.
SeekResetsSyncState == [][SeekStep => SyncStateInitial']_vars

\* a poll tick of either script: the interval's or the frame's callback runs
TickStep == updateProgress \/ syncFrame

----------------------------------------------------------------------------
(* What the progress bar is checked against *)

\* the percentage is a number from 0 to 100
IsPercentage(p) == p.kind = "number" /\ 0 <= p.num /\ p.num <= 100 * p.den

\* C22: when the transport's duration is zero or not yet available, the
\* percentage a tick writes to the progress bar is a number from 0 to 100,
\* no division by the zero duration is made, and the lookup of that tick
\* runs all the same; a seek on the progress bar writes nothing else.
ZeroDurationProgressClamped ==
    (duration = 0 /\ progressFill # NoProgress) => IsPercentage(progressFill)

----------------------------------------------------------------------------
(* What playback is checked against *)

\* C23: during forward playback with no seek and no track change between
\* two ticks, the transport's time not decreasing from the one to the
\* other, a line change the second tick emits is to an index not below the
\* index the first tick found, in the script that looks up the transport's
\* time and in the one that looks up the clock's estimate.
ForwardPlaybackIndexMonotone ==
    [][(/\ lastTick.looked /\ lastTick'.looked
        /\ player.state = "playing" /\ videoTime' >= videoTime
        /\ lastTick'.changed)
          => lastTick'.index >= lastTick.index]_vars

\* C24: a tick that finds the active line moved from index i to index j,
\* as after a seek of any sign and distance, emits exactly one line change,
\* from i to j: the stored index is j after that one tick, no tick emits
\* more than its one change, and a further tick at the same time emits
\* nothing for the indices in between.
SeekJumpIsOneLineChange ==
    [][lastTick'.looked =>
         LET i == CurrentIndex
             j == TickIndexNow
         IN /\ lastTick'.prev = i /\ lastTick'.index = j /\ CurrentIndex' = j
            /\ lastTick'.changed <=> (j # i)
            /\ ~SyncFrom(Track', j, lastTick'.time, Lead').changed]_vars

\* C24: after a seek back to 0 s a tick of app.js has moved the index from
\* the last line to none, three indices in one line change
SeekJumpIsOneLineChangeWitness ==
    /\ script = "app.js"
    /\ lastTick.looked /\ lastTick.changed
    /\ lastTick.prev = 2 /\ lastTick.index = -1
    /\ currentLineIndex = -1 /\ videoTime = 0

----------------------------------------------------------------------------
(* What the player's readiness is checked against *)

\* the script holds a player whose ready notification has not come yet: its
\* methods are not there to call
PlayerNotReady == player.exists /\ ~player.ready

\* C25: loading a new video stops the polling loop before the new player is
\* attached and the loop stays stopped until that player reports ready: no
\* tick is scheduled while the player held is not ready, and no frame calls
\* getCurrentTime or getDuration on such a player.
NoTickOnUnreadyPlayer ==
    [][/\ PlayerNotReady => ~TickScheduled
       /\ syncFrame => ~PlayerNotReady]_vars

\* the step calls startProgressTracking() or startSyncLoop(): a new interval
\* or frame request is stored
LoopStarted ==
    \/ chains' > chains
    \/ progressInterval' = "set" /\ progressInterval = "null"
    \/ animationFrame' = "pending" /\ animationFrame # "pending"

\* the ready and playing callbacks of the player
ReadyOrPlayingStep ==
    \/ onPlayerReady \/ onPlayerStateChangePlaying
    \/ onReady \/ onStateChangePlaying

\* C26: the polling loop is started from the ready and playing callbacks of
\* a player only, and never before the ready notification of the player
\* held has been delivered: every step that starts the loop is one of those
\* callbacks and leaves a ready player, and each of them does start it.
LoopStartedByReadyPlayerOnly ==
    [][/\ LoopStarted => (ReadyOrPlayingStep /\ player'.exists /\ player'.ready)
       /\ ReadyOrPlayingStep => TickScheduled']_vars

\* C26: the ready notification of a player of app.js that has not played
\* yet has started the interval
LoopStartedByReadyPlayerOnlyWitness ==
    /\ script = "app.js"
    /\ player.ready /\ player.state = "unstarted"
    /\ progressInterval = "set" /\ chains = 1

\* C27: an operation that reaches the transport before it has reported
\* ready, a play/pause toggle, a seek on the progress bar, a click on a
\* lyric line or a tick, is refused or deferred and raises no error: no
\* callback calls a method of a player that is not ready yet.
UnreadyPlayerNeverCalled == ~lastTick.threw

----------------------------------------------------------------------------
(* What the track in place is checked against *)

\* C28: the track in place is replaced between ticks only: a tick leaves
\* the track as it found it, the index it stores is the lookup's on that
\* one track, and every step that replaces the track is the completion of a
\* search, in which no lookup runs.
TrackReplacedBetweenTicks ==
    [][/\ lastTick'.looked =>
             /\ Track' = Track
             /\ IsLastAtOrBefore(Track', lastTick'.time, Lead', lastTick'.index)
       /\ Track' # Track => (TrackLoadStep /\ ~lastTick'.looked)]_vars

\* C28: a tick of the engine script has run on a one-line track with the
\* stored index of the three-line track that was in place before
TrackReplacedBetweenTicksWitness ==
    /\ script = "engine"
    /\ lastTick.looked
    /\ Len(lyrics.lines) = 1
    /\ lastTick.prev = 2 /\ lastTick.index = 0

----------------------------------------------------------------------------
(* What the polling harness is checked against *)

\* C29: on the track with events at 0, 3 and 6 s and the current index at
\* -1, ticks at 0.5, 3.2 and 6.1 s emit the line changes -1 to 0, 0 to 1
\* and 1 to 2, in that order, and no other.
PollScenarioLineChanges ==
    LET h == (5 * Second) \div 10
        m == (32 * Second) \div 10
        l == (61 * Second) \div 10
    IN /\ polled = <<h>> => notifications = << <<-1, 0>> >>
       /\ polled = <<h, m>> => notifications = << <<-1, 0>>, <<0, 1>> >>
       /\ polled = <<h, m, l>> =>
             notifications = << <<-1, 0>>, <<0, 1>>, <<1, 2>> >>

\* C29: the three ticks of the scenario have run in the engine script
PollScenarioLineChangesWitness ==
    /\ script = "engine"
    /\ polled = <<(5 * Second) \div 10, (32 * Second) \div 10, (61 * Second) \div 10>>
    /\ Len(notifications) = 3 /\ currentLine = 2

\* the track in place is timed: its source supplied per-line timestamps and
\* parsing them yielded at least one event
TrackTimed ==
    IF script = "app.js"
    THEN hasSyncedLyrics /\ Len(syncedLyrics) > 0
    ELSE lyrics.synced /\ Len(lyrics.lines) > 0

\* C30: a track is treated as timed only if its source supplied per-line
\* timestamps and parsing yielded at least one event; while the track in
\* place is not timed, plain lyrics given evenly spaced placeholder times
\* included, no tick changes the current index or highlights a line.
UntimedTrackNeverHighlighted ==
    [][(TickStep /\ ~TrackTimed)
          => (CurrentIndex' = CurrentIndex /\ ~lastTick'.changed)]_vars

----------------------------------------------------------------------------
(* What lyric resolution is checked against *)

\* every provider call the order of the claim asks for, from strategy i on:
\* the eligible strategies in list order, LRCLIB before Lyrics.ovh
RECURSIVE CallsInOrder(_)
CallsInOrder(i) ==
    IF i \notin Strategies THEN <<>>
    ELSE (IF i \in eligible
          THEN <<[strategy |-> i, source |-> "LRCLIB"],
                 [strategy |-> i, source |-> "Lyrics.ovh"]>>
          ELSE <<>>) \o CallsInOrder(i + 1)

\* the provider calls made so far, without their outcomes
CallsMade == [k \in 1..Len(requests) |->
                 [strategy |-> requests[k].strategy, source |-> requests[k].source]]

\* C31: lyric resolution calls its providers in a fixed order, LRCLIB before
\* Lyrics.ovh for each eligible strategy and the strategies in list order; no
\* call follows a successful one, whose result is what it returns; and it
\* fails with the not-found error only when every eligible strategy has
\* failed on both providers, whether a provider threw or returned no lyrics.
ResolutionTriesInOrder ==
    /\ IsPrefix(CallsMade, CallsInOrder(1))
    /\ \A k \in 1..(Len(requests) - 1) : ~requests[k].ok
    /\ resolved.status = "found" <=>
          (requests # <<>> /\ requests[Len(requests)].ok)
    /\ resolved.status = "found" =>
          resolved.source = requests[Len(requests)].source
    /\ resolved.status = "not found" =>
          (CallsMade = CallsInOrder(1) /\ \A k \in 1..Len(requests) : ~requests[k].ok)
    /\ resolved.status \in {"pending", "found", "not found"}

\* C31: with the second strategy skipped, findLyrics has found plain lyrics
\* on Lyrics.ovh with its third strategy, after three failed calls.
ResolutionTriesInOrderWitness ==
    /\ script = "app.js" /\ eligible = {1, 3}
    /\ Len(requests) = 4
    /\ resolved = [status |-> "found", synced |-> FALSE, source |-> "Lyrics.ovh"]
    /\ requests[4].strategy = 3

----------------------------------------------------------------------------
(* What the session is checked against: the loaded track and its index *)

\* the track in place, with what marks it as timed
LoadedTrack == IF script = "app.js" THEN <<syncedLyrics, hasSyncedLyrics>> ELSE lyrics

\* the tracks a successful resolution can put in place
ResolvedTracks ==
    IF script = "app.js"
    THEN {<<r.parsed, r.synced /\ Len(r.parsed) > 0>> : r \in AppResults}
    ELSE EngineResults

\* a search that fails, or one still awaiting the network
SearchFailsOrWaits ==
    analyzeYouTubeUrl \/ analyzeRejected \/ handleSearch \/ handleSearchRejected

\* C32: the loaded track changes only by the wholesale replacement of a
\* successful lyric resolution, which puts its own result in place as it is;
\* every other step, a tick, a seek, a play, pause or ended notification, a
\* search that fails or has not resolved, leaves the track, its events and
\* their order, unchanged.
TrackReplacedOnlyByResolution ==
    [][/\ LoadedTrack' # LoadedTrack => TrackLoadStep
       /\ TrackLoadStep => LoadedTrack' \in ResolvedTracks
       /\ SearchFailsOrWaits => LoadedTrack' = LoadedTrack]_vars

\* C32: the three-line track of the engine script is still in place, in
\* order, after the video has played to its end and a tick has run on it.
TrackReplacedOnlyByResolutionWitness ==
    /\ script = "engine" /\ player.state = "ended" /\ lastTick.looked
    /\ lyrics = [loaded |-> TRUE, synced |-> TRUE, lines |-> parseLRC(SampleA)]

\* C33: a click on the timed line of index i, the player ready, seeks the
\* transport to that line's time, and the tick that follows makes line i the
\* current one, whatever track the parser produced, events sharing one time
\* included.
ClickedLineBecomesCurrent ==
    (clickedLine >= 0 /\ lastTick.looked) =>
        /\ videoTime = Track[clickedLine + 1].time
        /\ CurrentIndex = clickedLine

----------------------------------------------------------------------------
(* What the session is checked against: the clock's correction *)

\* C34: in every reachable state the magnitude of driftCorrection is at most
\* the duration of the video: no sequence of ticks, pauses, resumes and
\* seeks makes the correction grow past it.
DriftCorrectionBounded == Abs(syncEngine.driftCorrection) <= Duration

----------------------------------------------------------------------------
(* What the session is checked against: the polling chain *)

\* C35: after any sequence of ready, playing, paused and ended notifications
\* and of searches at most one polling chain is pending, the one the script
\* holds the handle of: the interval of progressInterval in app.js, the
\* requested frame of animationFrame in the engine script.
AtMostOnePollingChain ==
    /\ chains <= 1
    /\ script = "app.js" => (chains = 1 <=> progressInterval = "set")
    /\ script = "engine" => (chains = 1 <=> animationFrame = "pending")

\* C35: the engine script has started its loop at onReady, at the first
\* playing notification and again after a pause, and one frame is pending.
AtMostOnePollingChainWitness ==
    /\ script = "engine" /\ player.state = "playing"
    /\ syncEngine.pausedTime > 0
    /\ chains = 1 /\ animationFrame = "pending"

\* C36: in every reachable state the stored current index is -1 or an index
\* of the timed track in place, -1 <= index < number of events, also right
\* after the track was replaced by a shorter, an empty or an un-timed one.
CurrentIndexWithinTrack ==
    /\ -1 <= CurrentIndex
    /\ CurrentIndex < (IF TrackTimed THEN Len(Track) ELSE 0)

\* C37: whenever the player is playing and a timed track is loaded, the
\* polling loop is active: no operation, a URL analysis awaiting the network
\* or failing in particular, leaves a playing video without lyric polling.
PlayingVideoIsPolled ==
    (player.exists /\ player.state = "playing" /\ TrackTimed) => TickScheduled

\* C38: once the transport has reported the end of the video, and until its
\* next playing notification, polling is stopped, so that no tick runs, and
\* the current index is -1, no line highlighted.
EndedVideoNotPolled ==
    (player.exists /\ player.state = "ended") =>
        (~TickScheduled /\ CurrentIndex = -1)

----------------------------------------------------------------------------
(* What overlapping analyses are checked against *)

\* C39: when URL analyses overlap and all of them have completed, the last
\* one issued among them with success, the track in place and the video
\* the player holds belong to one and the same analysis, the last one issued.
LastIssuedAnalysisWins ==
    (/\ urlAnalyses # <<>>
     /\ Waiting = {}
     /\ urlAnalyses[Len(urlAnalyses)] = "loaded") =>
        /\ trackOwner = videoOwner
        /\ trackOwner = Len(urlAnalyses)

----------------------------------------------------------------------------
(* What a session with invalid URLs is checked against *)

\* an analysis turned down for its URL
UrlRejectedStep == analyzeInvalidUrl \/ handleSearchInvalidUrl

\* C40: a URL analysis whose URL holds no video id ends with the error
\* shown and leaves the session as it was: the player and its position, the
\* loaded track, the current index, the polling loop and the clock are
\* unchanged, and no analysis is left awaiting the network.
InvalidUrlLeavesSession ==
    [][UrlRejectedStep =>
          /\ lastTick'.urlError
          /\ UNCHANGED <<player, videoTime, chains, analyses>>
          /\ UNCHANGED <<appVars, engineVars>>]_vars

\* C40: a URL without a video id has been turned down while a video was
\* playing, a line current and the polling loop running.
InvalidUrlLeavesSessionWitness ==
    /\ lastTick.urlError
    /\ player.state = "playing" /\ CurrentIndex >= 0 /\ chains = 1
    /\ analyses = 0

====
